---- MODULE Spec2Model ----
(***************************************************************************)
(* A model of rf-ace's Treedata (src/src/treedata.cpp): the feature table, *)
(* its missing-value filters and its three split searches.                 *)
(*                                                                         *)
(* C++ vectors are TLA+ sequences; a C++ index i is position i+1, read     *)
(* with At and written with Put.  Feature values are integers, the missing *)
(* value (datadefs::NUM_NAN) is the one negative value.  Impurity scores   *)
(* are exact rationals [k, n, d]: k = "num" for n/d, k = "nan" for the     *)
(* result of arithmetic on a missing value, k = "undef" for a score        *)
(* computed through a std::map keyed by a missing value.                   *)
(***************************************************************************)
EXTENDS Integers, Sequences, FiniteSets, TLC

\* ------------------------------------------------------------------ bounds

\* longest caller-supplied sample-index list (besides the full range)
MaxIcsLen == 4

\* the short lists index the first IcsPool samples of the table
IcsPool == 5

\* largest minimum-leaf-size argument
MaxMinSamples == 2

\* ------------------------------------------------------------ C++ vectors

At(v, i) == v[i + 1]

Put(v, i, x) == [v EXCEPT ![i + 1] = x]

\* vector::resize(n): keeps the first n elements, value-initialises new ones
resize(v, n) == [i \in 1..n |-> IF i <= Len(v) THEN v[i] ELSE 0]

\* vector::erase(begin, begin + n)
erase(v, n) == [i \in 1..(Len(v) - n) |-> v[i + n]]

range(n) == [i \in 1..n |-> i - 1]

\* a value computed once and handed on
Once(x) == CHOOSE y \in {x} : TRUE

BoundedSeq(S, n) == UNION {[1..k -> S] : k \in 0..n}

\* -------------------------------------------------------- missing values

NUM_NAN == -1

isNAN(x) == x = NUM_NAN

STR_NAN == "NaN"

\* ----------------------------------------------------------------- Feature

\* utils::strv2catv: every distinct non-missing string gets its own code, in
\* order of first appearance; the missing string is stored as NUM_NAN
RECURSIVE strv2catv_loop(_, _, _)
strv2catv_loop(strs, i, acc) ==
  IF i > Len(strs) THEN acc
  ELSE LET s == strs[i] IN
    IF s = STR_NAN
    THEN strv2catv_loop(strs, i + 1, [acc EXCEPT !.data = Append(@, NUM_NAN)])
    ELSE IF s \in DOMAIN acc.mapping
    THEN strv2catv_loop(strs, i + 1, [acc EXCEPT !.data = Append(@, acc.mapping[s])])
    ELSE LET c == Cardinality(DOMAIN acc.mapping) IN
      strv2catv_loop(strs, i + 1,
        [data |-> Append(acc.data, c),
         mapping |-> [t \in DOMAIN acc.mapping \cup {s} |->
                        IF t = s THEN c ELSE acc.mapping[t]],
         backMapping |-> [d \in DOMAIN acc.backMapping \cup {c} |->
                        IF d = c THEN s ELSE acc.backMapping[d]]])

\* mutant: every string present is given the code of the first
strv2catv_oneCode(strs) ==
  LET present == SelectSeq(strs, LAMBDA x : x # STR_NAN) IN
  [data |-> [i \in 1..Len(strs) |-> IF strs[i] = STR_NAN THEN NUM_NAN ELSE 0],
   mapping |-> [t \in {present[i] : i \in 1..Len(present)} |-> 0],
   backMapping |-> IF Len(present) = 0 THEN <<>> ELSE [d \in {0} |-> present[1]]]

strv2catv(strs) ==
  strv2catv_loop(strs, 1, [data |-> <<>>, mapping |-> <<>>, backMapping |-> <<>>])

\* hashfun::hsieh on the tokens the fixtures use
hsieh(token) ==
  CASE token = "r" -> 11
    [] token = "s" -> 12
    [] OTHER -> 13

\* utils::hashText: the set of hashes of the tokens of one text
hashText(text) == {hsieh(text[i]) : i \in 1..Len(text)}

\* Feature::Feature(const vector<num_t>&, const string&)
FeatureNum(newData, newName) ==
  [type |-> "NUM", name |-> newName, data |-> newData,
   mapping |-> <<>>, backMapping |-> <<>>, hashSet |-> <<>>]

\* Feature::Feature(const vector<string>&, const string&, bool doHash)
FeatureStr(newStringData, newName, doHash) ==
  IF ~doHash
  THEN LET c == strv2catv(newStringData) IN
    [type |-> "CAT", name |-> newName, data |-> c.data,
     mapping |-> c.mapping, backMapping |-> c.backMapping, hashSet |-> <<>>]
  ELSE
    [type |-> "TXT", name |-> newName, data |-> <<>>,
     mapping |-> <<>>, backMapping |-> <<>>,
     hashSet |-> [i \in 1..Len(newStringData) |-> hashText(newStringData[i])]]

\* ---------------------------------------------------------------- Treedata

\* Treedata::Treedata(fileName, ...), after the file is read: one Feature per
\* column by its type tag, names indexed, no placeholder sample labels needed
TreedataFromColumns(columns, sampleHeaders) ==
  [features |-> [i \in 1..Len(columns) |->
      IF columns[i].type = "NUM"
      THEN FeatureNum(columns[i].raw, columns[i].name)
      ELSE FeatureStr(columns[i].raw, columns[i].name, columns[i].type = "TXT")],
   name2idx |-> [nm \in {columns[i].name : i \in 1..Len(columns)} |->
      (CHOOSE i \in 1..Len(columns) : columns[i].name = nm) - 1],
   sampleHeaders |-> sampleHeaders]

\* the regression fixture of the documentation: target rises with the feature
ExampleColumns ==
  << [type |-> "NUM", name |-> "N:target", raw |-> <<1, 2, 3, 4, 10, 11, 12, 13>>],
     [type |-> "NUM", name |-> "N:feature", raw |-> <<1, 2, 3, 4, 5, 6, 7, 8>>] >>

\* a table of all three kinds with missing values in every data column
MixedColumns ==
  << [type |-> "NUM", name |-> "N:y", raw |-> <<1, 3, NUM_NAN, 2, 3>>],
     [type |-> "NUM", name |-> "N:x", raw |-> <<2, 1, 1, NUM_NAN, 3>>],
     [type |-> "CAT", name |-> "C:c", raw |-> <<"a", "b", "a", STR_NAN, "c">>],
     [type |-> "TXT", name |-> "T:t",
      raw |-> << <<"r", "s">>, <<"r">>, <<>>, <<"s">>, <<"r">> >>] >>

\* a table of two groups whose target means lie close together: four samples
\* of category "a" and five of category "b", one sample of each with target 1
\* and the others with target 0, so that dividing them by category scores
\* (4 * 5 / 9) * (1/4 - 1/5)^2 = 1/180
NearTieColumns ==
  << [type |-> "NUM", name |-> "N:v", raw |-> <<1, 0, 0, 0, 1, 0, 0, 0, 0>>],
     [type |-> "CAT", name |-> "C:g",
      raw |-> <<"a", "a", "a", "a", "b", "b", "b", "b", "b">>] >>

Tables ==
  { TreedataFromColumns(ExampleColumns, [i \in 1..8 |-> "NO_SAMPLE_ID"]),
    TreedataFromColumns(MixedColumns, [i \in 1..5 |-> "NO_SAMPLE_ID"]),
    TreedataFromColumns(NearTieColumns, [i \in 1..9 |-> "NO_SAMPLE_ID"]) }

VARIABLES features_, name2idx_, sampleHeaders_, useContrasts_, call

tableVars == <<features_, name2idx_, sampleHeaders_, useContrasts_>>

vars == <<features_, name2idx_, sampleHeaders_, useContrasts_, call>>

\* Treedata::nSamples
nSamples == Len(sampleHeaders_)

isFeatureNumerical(featureIdx) == features_[featureIdx + 1].type = "NUM"

isFeatureCategorical(featureIdx) == features_[featureIdx + 1].type = "CAT"

isFeatureTextual(featureIdx) == features_[featureIdx + 1].type = "TXT"

\* Treedata::getFeatureData(featureIdx, sampleIdx)
getFeatureDataAt(featureIdx, sampleIdx) == At(features_[featureIdx + 1].data, sampleIdx)

\* Treedata::getFeatureData(featureIdx, sampleIcs)
getFeatureData(featureIdx, sampleIcs) ==
  [i \in 1..Len(sampleIcs) |-> At(features_[featureIdx + 1].data, sampleIcs[i])]

\* ------------------------------------------------------------ call inputs

\* stored features that carry a value per sample (numeric or categorical)
DataFeatures == {f \in 0..(Len(features_) - 1) : ~isFeatureTextual(f)}

NumFeatures == {f \in 0..(Len(features_) - 1) : isFeatureNumerical(f)}

CatFeatures == {f \in 0..(Len(features_) - 1) : isFeatureCategorical(f)}

TxtFeatures == {f \in 0..(Len(features_) - 1) : isFeatureTextual(f)}

\* sample-index lists a caller hands in: any short list, duplicates and any
\* order allowed, and the full sample range
IcsSet ==
  BoundedSeq(0..((IF nSamples < IcsPool THEN nSamples ELSE IcsPool) - 1), MaxIcsLen)
    \cup {range(nSamples)}

\* the record of the call last made: its arguments and what it left behind
NoCall ==
  [op |-> "idle", targetIdx |-> 0, featureIdx |-> 0, minSamples |-> 0,
   hashIdx |-> 0, icsIn |-> <<>>, sampleIcs_left |-> <<>>, sampleIcs_right |-> <<>>,
   featureData1 |-> <<>>, featureData2 |-> <<>>, tv |-> <<>>, fv |-> <<>>,
   leftIn |-> <<>>, DI |-> [k |-> "num", n |-> 0, d |-> 1], splitValue |-> NUM_NAN,
   splitValues_in |-> {}, splitValues_left |-> {}, splitValues_right |-> {},
   exited |-> FALSE, withReplacement |-> FALSE, sampleSize |-> <<1, 1>>,
   ics |-> <<>>, oobIcs |-> <<>>, icsIn2 |-> <<>>, oobIcsIn |-> <<>>,
   random |-> <<>>, newData |-> <<>>, before |-> <<>>,
   featureName |-> "", result |-> 0, sampleIdx |-> 0, data |-> 0, integer |-> 0,
   order |-> <<>>, addressed |-> {}, name2idxBefore |-> <<>>, rawValue |-> "",
   pastEnd |-> FALSE]

Init ==
  /\ \E t \in Tables :
       /\ features_ = t.features
       /\ name2idx_ = t.name2idx
       /\ sampleHeaders_ = t.sampleHeaders
  /\ useContrasts_ = FALSE
  /\ call = NoCall

\* ------------------------------------------------- reads past a column's end

\* the entries of a sample list at which each of the features holds a value
InsideOf(featureIdxs, sampleIcs) ==
  SelectSeq(sampleIcs, LAMBDA idx :
    \A f \in featureIdxs : idx < Len(At(features_, f).data))

\* features_[featureIdx].data[idx] with idx past the end of the column is
\* undefined: the process ends, or the read finds the missing value there and
\* the call goes on with the entries it can read
PastEndOutcomes(featureIdxs, sampleIcs) ==
  IF InsideOf(featureIdxs, sampleIcs) = sampleIcs
  THEN {[pastEnd |-> FALSE, exited |-> FALSE]}
  ELSE {[pastEnd |-> TRUE, exited |-> TRUE], [pastEnd |-> TRUE, exited |-> FALSE]}

\* ------------------------------------------------- missing-value filters

\* Treedata::getFilteredFeatureData, lines 849-857: the compaction loop
RECURSIVE getFilteredFeatureData_loop(_, _, _, _, _)
getFilteredFeatureData_loop(featureIdx, i, nReal, sampleIcs, featureData) ==
  IF i >= Len(sampleIcs)
  THEN [nReal |-> nReal, sampleIcs |-> sampleIcs, featureData |-> featureData]
  ELSE LET idx == At(sampleIcs, i)
           value == At(features_[featureIdx + 1].data, idx) IN
    IF ~isNAN(value)
    THEN getFilteredFeatureData_loop(featureIdx, i + 1, nReal + 1,
           Put(sampleIcs, nReal, idx), Put(featureData, nReal, value))
    ELSE getFilteredFeatureData_loop(featureIdx, i + 1, nReal, sampleIcs, featureData)

\* mutant: the index list is not shrunk to the retained count
getFilteredFeatureData_noResize(featureIdx, sampleIcs) ==
  LET r == getFilteredFeatureData_loop(featureIdx, 0, 0, sampleIcs,
             resize(<<>>, Len(sampleIcs))) IN
  [sampleIcs |-> r.sampleIcs, featureData |-> resize(r.featureData, r.nReal)]

\* Treedata::getFilteredFeatureData: the loop, then both vectors resized
getFilteredFeatureData(featureIdx, sampleIcs) ==
  LET r == getFilteredFeatureData_loop(featureIdx, 0, 0, sampleIcs,
             resize(<<>>, Len(sampleIcs))) IN
  [sampleIcs |-> resize(r.sampleIcs, r.nReal),
   featureData |-> resize(r.featureData, r.nReal)]

\* mutant: a sample is kept when either value is present
keepPair_either(v1, v2) == ~isNAN(v1) \/ ~isNAN(v2)

\* Treedata::getFilteredFeatureDataPair, line 880: the test that keeps a sample
keepPair(v1, v2) == ~isNAN(v1) /\ ~isNAN(v2)

\* Treedata::getFilteredFeatureDataPair
RECURSIVE getFilteredFeatureDataPair_loop(_, _, _, _, _, _, _)
getFilteredFeatureDataPair_loop(featureIdx1, featureIdx2, i, nReal, sampleIcs, fd1, fd2) ==
  IF i >= Len(sampleIcs)
  THEN [sampleIcs |-> resize(sampleIcs, nReal),
        featureData1 |-> resize(fd1, nReal), featureData2 |-> resize(fd2, nReal)]
  ELSE LET v1 == At(features_[featureIdx1 + 1].data, At(sampleIcs, i))
           v2 == At(features_[featureIdx2 + 1].data, At(sampleIcs, i)) IN
    IF keepPair(v1, v2)
    THEN getFilteredFeatureDataPair_loop(featureIdx1, featureIdx2, i + 1, nReal + 1,
           Put(sampleIcs, nReal, At(sampleIcs, i)), Put(fd1, nReal, v1), Put(fd2, nReal, v2))
    ELSE getFilteredFeatureDataPair_loop(featureIdx1, featureIdx2, i + 1, nReal,
           sampleIcs, fd1, fd2)

getFilteredFeatureDataPair(featureIdx1, featureIdx2, sampleIcs) ==
  getFilteredFeatureDataPair_loop(featureIdx1, featureIdx2, 0, 0, sampleIcs,
    resize(<<>>, Len(sampleIcs)), resize(<<>>, Len(sampleIcs)))

\* a caller filters one column of a sample list
GetFilteredFeatureDataOn(icsSet) ==
  /\ call.op = "idle"
  /\ \E featureIdx \in DataFeatures, ics \in icsSet :
       \E u \in PastEndOutcomes({featureIdx}, ics) :
       \E r \in {getFilteredFeatureData(featureIdx, InsideOf({featureIdx}, ics))} :
       call' = [NoCall EXCEPT !.op = "getFilteredFeatureData",
                  !.featureIdx = featureIdx, !.icsIn = ics,
                  !.sampleIcs_right = r.sampleIcs, !.featureData1 = r.featureData,
                  !.exited = u.exited, !.pastEnd = u.pastEnd]
  /\ UNCHANGED tableVars

\* the call over every input within the bounds
GetFilteredFeatureData == GetFilteredFeatureDataOn(IcsSet)

\* a caller filters two columns of a sample list together
GetFilteredFeatureDataPairOn(icsSet) ==
  /\ call.op = "idle"
  /\ \E featureIdx1 \in DataFeatures, featureIdx2 \in DataFeatures, ics \in icsSet :
       \E u \in PastEndOutcomes({featureIdx1, featureIdx2}, ics) :
       \E r \in {getFilteredFeatureDataPair(featureIdx1, featureIdx2,
                                            InsideOf({featureIdx1, featureIdx2}, ics))} :
       call' = [NoCall EXCEPT !.op = "getFilteredFeatureDataPair",
                  !.targetIdx = featureIdx1, !.featureIdx = featureIdx2, !.icsIn = ics,
                  !.sampleIcs_right = r.sampleIcs,
                  !.featureData1 = r.featureData1, !.featureData2 = r.featureData2,
                  !.exited = u.exited, !.pastEnd = u.pastEnd]
  /\ UNCHANGED tableVars

\* the call over every input within the bounds
GetFilteredFeatureDataPair == GetFilteredFeatureDataPairOn(IcsSet)

\* ------------------------------------------------------ impurity scores

RECURSIVE GCD(_, _)
GCD(a, b) == IF b = 0 THEN a ELSE GCD(b, a % b)

Abs(x) == IF x < 0 THEN -x ELSE x

\* the rational n/d in lowest terms, d > 0
Rat(n, d) ==
  LET g == GCD(Abs(n), Abs(d))
      sg == IF d < 0 THEN -1 ELSE 1 IN
  IF n = 0 THEN [k |-> "num", n |-> 0, d |-> 1]
  ELSE [k |-> "num", n |-> sg * (n \div g), d |-> sg * (d \div g)]

Zero == Rat(0, 1)

NaNScore == [k |-> "nan", n |-> 0, d |-> 1]

UndefScore == [k |-> "undef", n |-> 0, d |-> 1]

\* a feature value as a score: the missing value is a NaN
RatOf(x) == IF isNAN(x) THEN NaNScore ELSE Rat(x, 1)

RAdd(a, b) ==
  IF a.k # "num" \/ b.k # "num" THEN NaNScore ELSE Rat(a.n * b.d + b.n * a.d, a.d * b.d)

RSub(a, b) ==
  IF a.k # "num" \/ b.k # "num" THEN NaNScore ELSE Rat(a.n * b.d - b.n * a.d, a.d * b.d)

RMul(a, b) ==
  IF a.k # "num" \/ b.k # "num" THEN NaNScore ELSE Rat(a.n * b.n, a.d * b.d)

\* division by a count: 0/0 and x/0 are not numbers a comparison can use
RDivInt(a, m) ==
  IF a.k # "num" \/ m = 0 THEN NaNScore ELSE Rat(a.n, a.d * m)

\* a > b as the C++ comparison: false when either side is a NaN
RGreater(a, b) == a.k = "num" /\ b.k = "num" /\ a.n * b.d > b.n * a.d

IsZero(a) == a.k = "num" /\ a.n = 0

\* math::deltaImpurity_regr: (n_left * n_right / n_tot) * (mu_left - mu_right)^2
deltaImpurity_regr(mu_tot, n_tot, mu_left, n_left, mu_right, n_right) ==
  LET diff == RSub(mu_left, mu_right) IN
  RMul(RDivInt(Rat(n_left * n_right, 1), n_tot), RMul(diff, diff))

\* math::deltaImpurity_class: sf_left/n_left + sf_right/n_right - sf_tot/n_tot
deltaImpurity_class(sf_tot, n_tot, sf_left, n_left, sf_right, n_right) ==
  RSub(RAdd(RDivInt(Rat(sf_left, 1), n_left), RDivInt(Rat(sf_right, 1), n_right)),
       RDivInt(Rat(sf_tot, 1), n_tot))

\* the sum of the values of a vector
RECURSIVE SumSeq(_)
SumSeq(v) == IF Len(v) = 0 THEN 0 ELSE v[1] + SumSeq(Tail(v))

HasNaN(v) == \E i \in 1..Len(v) : isNAN(v[i])

\* the mean of a vector, a NaN when a value is missing or the vector empty
MeanOf(v) == IF HasNaN(v) \/ Len(v) = 0 THEN NaNScore ELSE Rat(SumSeq(v), Len(v))

\* the sum of squared per-category occurrence counts of a vector
SquaredFrequency(v) ==
  Cardinality({p \in (1..Len(v)) \X (1..Len(v)) : v[p[1]] = v[p[2]]})

MAX_IDX == 2147483647

\* ----------------------------------------------------- numeric split scan

\* utils::filterSort: drops the missing values, sorts the rest ascending
\* (ties in input order) and reports each kept value's input position
RECURSIVE filterSort_order(_, _)
filterSort_order(data, P) ==
  IF P = {} THEN <<>>
  ELSE LET m == CHOOSE i \in P : \A j \in P :
                  data[i] < data[j] \/ (data[i] = data[j] /\ i <= j) IN
    <<m - 1>> \o filterSort_order(data, P \ {m})

filterSort(isIncreasingOrder, data) ==
  LET refIcs == filterSort_order(data, {i \in 1..Len(data) : ~isNAN(data[i])}) IN
  [data |-> [i \in 1..Len(refIcs) |-> At(data, refIcs[i])], refIcs |-> refIcs]

\* the boundaries a scan may choose: after position i (n_left = i + 1), both
\* sides holding minSamples entries, between two distinct feature values
Boundaries(fv, minSamples) ==
  {i \in 0..(Len(fv) - 2) :
     /\ i + 1 >= minSamples
     /\ Len(fv) - (i + 1) >= minSamples
     /\ At(fv, i) # At(fv, i + 1)}

\* the score of the boundary after position i, by the target's kind
BoundaryScore(tv, i, numericalTarget) ==
  LET left == SubSeq(tv, 1, i + 1)
      right == SubSeq(tv, i + 2, Len(tv)) IN
  IF numericalTarget
  THEN deltaImpurity_regr(MeanOf(tv), Len(tv), MeanOf(left), Len(left),
                          MeanOf(right), Len(right))
  ELSE deltaImpurity_class(SquaredFrequency(tv), Len(tv), SquaredFrequency(left),
                           Len(left), SquaredFrequency(right), Len(right))

\* the candidate a scan ends on: it walks the candidates in ascending order
\* and replaces the best so far (score 0, no candidate) only by a strictly
\* greater score, so it ends on the first candidate of the greatest positive
\* score; a NaN score never compares greater
BestOf(scores, none) ==
  LET positive == {k \in DOMAIN scores : RGreater(scores[k], Zero)} IN
  IF positive = {} THEN [DI |-> Zero, splitIdx |-> none]
  ELSE LET k == CHOOSE a \in positive : \A j \in positive :
                  \/ RGreater(scores[a], scores[j])
                  \/ (~RGreater(scores[j], scores[a]) /\ a <= j) IN
    [DI |-> scores[k], splitIdx |-> k]

scan(tv, fv, minSamples, numericalTarget) ==
  BestOf(Once([i \in Boundaries(fv, minSamples) |->
                 Once(BoundaryScore(tv, i, numericalTarget))]), MAX_IDX)

\* utils::numericalFeatureSplitsNumericalTarget: the outcomes of the scan
numericalFeatureSplitsNumericalTarget(tv, fv, minSamples) ==
  {scan(tv, fv, minSamples, TRUE)}

\* utils::numericalFeatureSplitsCategoricalTarget: the outcomes of the scan.
\* A missing target value becomes a key of the frequency map, whose ordering
\* it breaks: the scan then ends on any boundary it may choose, or on none.
numericalFeatureSplitsCategoricalTarget(tv, fv, minSamples) ==
  IF HasNaN(tv)
  THEN {[DI |-> Zero, splitIdx |-> MAX_IDX]} \cup
       {[DI |-> UndefScore, splitIdx |-> i] : i \in Boundaries(fv, minSamples)}
  ELSE {scan(tv, fv, minSamples, FALSE)}

\* mutant: the index list is filtered but left in input order
getFilteredAndSortedFeatureDataPair3_unsortedIcs(targetIdx, featureIdx, sampleIcs) ==
  LET fs == filterSort(TRUE, getFeatureData(featureIdx, sampleIcs))
      kept == SelectSeq(sampleIcs, LAMBDA idx :
                ~isNAN(At(features_[featureIdx + 1].data, idx))) IN
  [sampleIcs |-> kept,
   targetData |-> getFeatureData(targetIdx, kept),
   featureData |-> fs.data]

\* Treedata::getFilteredAndSortedFeatureDataPair3
getFilteredAndSortedFeatureDataPair3(targetIdx, featureIdx, sampleIcs) ==
  LET featureData == getFeatureData(featureIdx, sampleIcs)
      fs == filterSort(TRUE, featureData)
      sampleIcsCopy == sampleIcs
      sorted == [i \in 1..Len(fs.refIcs) |-> At(sampleIcsCopy, fs.refIcs[i])] IN
  [sampleIcs |-> sorted,
   targetData |-> getFeatureData(targetIdx, sorted),
   featureData |-> fs.data]

\* mutant: the caller's left list is left as it came
clearLeft_keep(sampleIcs_left) == sampleIcs_left

\* Treedata::numericalFeatureSplit, line 906: sampleIcs_left.clear()
clearLeft(sampleIcs_left) == <<>>

\* mutant: the left list takes one entry too few
splitLeftCount_short(bestSplitIdx) == bestSplitIdx

\* Treedata::numericalFeatureSplit, line 939: n_left = bestSplitIdx + 1
splitLeftCount(bestSplitIdx) == bestSplitIdx + 1

\* Treedata::numericalFeatureSplit: every result the call can leave behind
numericalFeatureSplit(targetIdx, featureIdx, minSamples, sampleIcs_left, sampleIcs_right, splitValue) ==
  LET fs == Once(getFilteredAndSortedFeatureDataPair3(targetIdx, featureIdx,
                                                      sampleIcs_right))
      tv == fs.targetData
      fv == fs.featureData
      n_tot == Len(fv)
      noSplit == [DI |-> Zero, sampleIcs_left |-> clearLeft(sampleIcs_left),
                  sampleIcs_right |-> fs.sampleIcs,
                  splitValue |-> splitValue, tv |-> tv, fv |-> fv]
      scans == IF isFeatureNumerical(targetIdx)
               THEN numericalFeatureSplitsNumericalTarget(tv, fv, minSamples)
               ELSE numericalFeatureSplitsCategoricalTarget(tv, fv, minSamples) IN
  IF n_tot < 2 * minSamples THEN {noSplit}
  ELSE { IF o.splitIdx = MAX_IDX THEN noSplit
         ELSE LET n_left == splitLeftCount(o.splitIdx) IN
           [DI |-> o.DI,
            sampleIcs_left |-> [i \in 1..n_left |-> fs.sampleIcs[i]],
            sampleIcs_right |-> erase(fs.sampleIcs, n_left),
            splitValue |-> At(fv, o.splitIdx), tv |-> tv, fv |-> fv]
         : o \in scans }

\* what a caller's left list may hold when it is handed in
StaleLeft == <<0>>

\* Treedata::getFilteredAndSortedFeatureDataPair3, lines 1287-1302: the list
\* the target is read at, the entries whose feature value is present in
\* ascending order of that value
targetReadIcs(featureIdx, sampleIcs) ==
  LET fs == filterSort(TRUE, getFeatureData(featureIdx, sampleIcs)) IN
  [i \in 1..Len(fs.refIcs) |-> At(sampleIcs, fs.refIcs[i])]

\* the reads of getFilteredAndSortedFeatureDataPair3: the feature at every
\* entry of the list (line 1287), the target only at the entries the feature's
\* filter keeps (line 1304)
PastEndOutcomesPair3(targetIdx, featureIdx, sampleIcs) ==
  IF InsideOf({featureIdx}, sampleIcs) # sampleIcs
  THEN PastEndOutcomes({featureIdx}, sampleIcs)
  ELSE PastEndOutcomes({targetIdx}, targetReadIcs(featureIdx, sampleIcs))

\* a caller searches the split of a numeric feature
NumericalFeatureSplitOn(minSet, icsSet) ==
  /\ call.op = "idle"
  /\ \E targetIdx \in DataFeatures, featureIdx \in NumFeatures,
        minSamples \in minSet, ics \in icsSet :
       /\ targetIdx # featureIdx
       /\ \E u \in PastEndOutcomesPair3(targetIdx, featureIdx, ics) :
          \E r \in numericalFeatureSplit(targetIdx, featureIdx, minSamples, StaleLeft,
                                         InsideOf({targetIdx, featureIdx}, ics), NUM_NAN) :
            call' = [NoCall EXCEPT !.op = "numericalFeatureSplit",
                       !.targetIdx = targetIdx, !.featureIdx = featureIdx,
                       !.minSamples = minSamples, !.icsIn = ics, !.leftIn = StaleLeft,
                       !.sampleIcs_left = r.sampleIcs_left,
                       !.sampleIcs_right = r.sampleIcs_right,
                       !.DI = r.DI, !.splitValue = r.splitValue,
                       !.tv = r.tv, !.fv = r.fv,
                       !.exited = u.exited, !.pastEnd = u.pastEnd]
  /\ UNCHANGED tableVars

\* the call over every input within the bounds
NumericalFeatureSplit == NumericalFeatureSplitOn(1..MaxMinSamples, IcsSet)

\* ------------------------------------------------------ categorical split

\* a set of integers as the ascending sequence a std::map or std::set iterates
RECURSIVE Ascending(_)
Ascending(S) ==
  IF S = {} THEN <<>>
  ELSE LET m == CHOOSE x \in S : \A y \in S : x <= y IN <<m>> \o Ascending(S \ {m})

\* the positions (from 0, ascending) of a vector that hold one value
PositionsOf(fv, c) == Ascending({i - 1 : i \in {j \in 1..Len(fv) : fv[j] = c}})

\* the values of a vector at a sequence of positions
Pick(v, positions) == [i \in 1..Len(positions) |-> At(v, positions[i])]

\* the categories of fv in the order the partition search walks them: by the
\* mean of the target within the category for a numeric target (ties by
\* code), by code for a categorical target
CategoryMean(tv, fv, c) == MeanOf(Pick(tv, PositionsOf(fv, c)))

RECURSIVE CategoryOrder_by(_, _)
CategoryOrder_by(key, S) ==
  IF S = {} THEN <<>>
  ELSE LET m == CHOOSE a \in S : \A b \in S :
                  \/ RGreater(key[b], key[a])
                  \/ (~RGreater(key[a], key[b]) /\ a <= b) IN
    <<m>> \o CategoryOrder_by(key, S \ {m})

CategoryOrder(tv, fv, numericalTarget, S) ==
  CategoryOrder_by(
    Once([c \in S |-> IF numericalTarget THEN Once(CategoryMean(tv, fv, c)) ELSE Zero]), S)

\* the positions of the first k categories of an order, and of the others
SidePositions(fv, order, from, to) ==
  {p \in 0..(Len(fv) - 1) : \E j \in from..to : order[j] = At(fv, p)}

\* the score of a two-way partition of the positions of tv
PartitionScore(tv, L, R, numericalTarget) ==
  LET left == Pick(tv, Ascending(L))
      right == Pick(tv, Ascending(R)) IN
  IF numericalTarget
  THEN deltaImpurity_regr(MeanOf(tv), Len(tv), MeanOf(left), Len(left),
                          MeanOf(right), Len(right))
  ELSE deltaImpurity_class(SquaredFrequency(tv), Len(tv), SquaredFrequency(left),
                           Len(left), SquaredFrequency(right), Len(right))

\* the boundary scan over an order of the categories: candidate k puts the
\* first k categories left, and counts when both sides hold minSamples entries
catScan(tv, fv, minSamples, numericalTarget, order) ==
  LET K == {k \in 1..(Len(order) - 1) :
              /\ Cardinality(SidePositions(fv, order, 1, k)) >= minSamples
              /\ Cardinality(SidePositions(fv, order, k + 1, Len(order))) >= minSamples} IN
  BestOf(Once([k \in K |->
                 Once(PartitionScore(tv, SidePositions(fv, order, 1, k),
                        SidePositions(fv, order, k + 1, Len(order)), numericalTarget))]), 0)

\* the two maps of a partition: each category of a side to its positions
catMaps(fv, order, best) ==
  [DI |-> best.DI,
   fmap_left |-> [c \in {order[j] : j \in 1..best.splitIdx} |-> PositionsOf(fv, c)],
   fmap_right |-> [c \in {order[j] : j \in (best.splitIdx + 1)..Len(order)} |->
                     PositionsOf(fv, c)]]

\* utils::categoricalFeatureSplitsNumericalTarget and ...CategoricalTarget:
\* the boundary scan over the ordered categories; fmap_left and fmap_right
\* map each category of a side to the positions that hold it
categoricalFeatureSplits(tv, fv, minSamples, numericalTarget) ==
  CHOOSE r \in {catMaps(fv, order, Once(catScan(tv, fv, minSamples, numericalTarget, order))) :
                  order \in {CategoryOrder(tv, fv, numericalTarget,
                                           {fv[i] : i \in 1..Len(fv)})}} : TRUE

\* datadefs::EPS is 1 / EPS_DEN: a threshold near zero, placed where the exact
\* scores of tables of a few integer-valued samples fall on either side of it
EPS_DEN == 100

\* fabs(DI) < datadefs::EPS
belowEps(DI) ==
  DI.k = "num" /\ Abs(DI.n) < DI.d /\ Abs(DI.n) * EPS_DEN < DI.d

\* mutant: every sample of a side is read at the side's running position
sideSamples_byIter(sampleIcs, fmap) ==
  LET n == Cardinality(UNION {{fmap[c][i] : i \in 1..Len(fmap[c])} : c \in DOMAIN fmap}) IN
  [i \in 1..n |-> sampleIcs[i]]

\* Treedata::categoricalFeatureSplit, lines 1006-1012 and 1021-1027: the samples
\* of one side, category by category in ascending code order
RECURSIVE sideSamples_walk(_, _, _)
sideSamples_walk(sampleIcs, fmap, keys) ==
  IF Len(keys) = 0 THEN <<>>
  ELSE [i \in 1..Len(fmap[keys[1]]) |-> At(sampleIcs, fmap[keys[1]][i])]
       \o sideSamples_walk(sampleIcs, fmap, Tail(keys))

sideSamples(sampleIcs, fmap) == sideSamples_walk(sampleIcs, fmap, Ascending(DOMAIN fmap))

\* mutant: the caller's category sets are emptied before the search
categoricalFeatureSplit_filtered_setsCleared(f, numericalTarget, minSamples, splitValues_left, splitValues_right) ==
  LET tv == f.featureData1
      fv == f.featureData2
      n_tot == Len(fv)
      sampleIcs == f.sampleIcs
      unsplit == [DI |-> Zero, sampleIcs_left |-> <<>>, sampleIcs_right |-> f.sampleIcs,
                  splitValues_left |-> {}, splitValues_right |-> {}, tv |-> tv, fv |-> fv] IN
  IF n_tot < 2 * minSamples THEN unsplit
  ELSE CHOOSE r \in
    { IF belowEps(sc.DI) THEN [unsplit EXCEPT !.DI = sc.DI]
      ELSE [DI |-> sc.DI,
            sampleIcs_left |-> sideSamples(sampleIcs, sc.fmap_left),
            sampleIcs_right |-> sideSamples(sampleIcs, sc.fmap_right),
            splitValues_left |-> DOMAIN sc.fmap_left,
            splitValues_right |-> DOMAIN sc.fmap_right, tv |-> tv, fv |-> fv]
      : sc \in {categoricalFeatureSplits(tv, fv, minSamples, numericalTarget)} } : TRUE

\* Treedata::categoricalFeatureSplit, lines 974-1032: after the pairwise filter
categoricalFeatureSplit_filtered(f, numericalTarget, minSamples, splitValues_left, splitValues_right) ==
  LET tv == f.featureData1
      fv == f.featureData2
      n_tot == Len(fv)
      sampleIcs == f.sampleIcs
      unsplit == [DI |-> Zero, sampleIcs_left |-> <<>>, sampleIcs_right |-> f.sampleIcs,
                  splitValues_left |-> splitValues_left,
                  splitValues_right |-> splitValues_right, tv |-> tv, fv |-> fv] IN
  IF n_tot < 2 * minSamples THEN unsplit
  ELSE CHOOSE r \in
    { IF belowEps(sc.DI) THEN [unsplit EXCEPT !.DI = sc.DI]
      ELSE [DI |-> sc.DI,
            sampleIcs_left |-> sideSamples(sampleIcs, sc.fmap_left),
            sampleIcs_right |-> sideSamples(sampleIcs, sc.fmap_right),
            splitValues_left |-> DOMAIN sc.fmap_left,
            splitValues_right |-> DOMAIN sc.fmap_right, tv |-> tv, fv |-> fv]
      : sc \in {categoricalFeatureSplits(tv, fv, minSamples, numericalTarget)} } : TRUE

\* Treedata::categoricalFeatureSplit: the left list cleared, the right list
\* filtered pairwise, then the search
categoricalFeatureSplit(targetIdx, featureIdx, minSamples, sampleIcs_left, sampleIcs_right, splitValues_left, splitValues_right) ==
  categoricalFeatureSplit_filtered(
    Once(getFilteredFeatureDataPair(targetIdx, featureIdx, sampleIcs_right)),
    isFeatureNumerical(targetIdx), minSamples, splitValues_left, splitValues_right)

\* what a caller's category sets may hold when they are handed in
StaleSplitValues == {{}, {7}}

\* a caller searches the split of a categorical feature
CategoricalFeatureSplitOn(minSet, icsSet) ==
  /\ call.op = "idle"
  /\ \E targetIdx \in DataFeatures, featureIdx \in CatFeatures,
        minSamples \in minSet, ics \in icsSet, sv \in StaleSplitValues :
       /\ targetIdx # featureIdx
       /\ \E u \in PastEndOutcomes({targetIdx, featureIdx}, ics) :
          \E r \in {categoricalFeatureSplit(targetIdx, featureIdx, minSamples, StaleLeft,
                                            InsideOf({targetIdx, featureIdx}, ics), sv, sv)} :
            call' = [NoCall EXCEPT !.op = "categoricalFeatureSplit",
                       !.targetIdx = targetIdx, !.featureIdx = featureIdx,
                       !.minSamples = minSamples, !.icsIn = ics, !.leftIn = StaleLeft,
                       !.sampleIcs_left = r.sampleIcs_left,
                       !.sampleIcs_right = r.sampleIcs_right,
                       !.DI = r.DI, !.splitValues_in = sv,
                       !.splitValues_left = r.splitValues_left,
                       !.splitValues_right = r.splitValues_right,
                       !.tv = r.tv, !.fv = r.fv,
                       !.exited = u.exited, !.pastEnd = u.pastEnd]
  /\ UNCHANGED tableVars

\* the call over every input within the bounds
CategoricalFeatureSplit == CategoricalFeatureSplitOn(1..MaxMinSamples, IcsSet)

\* ---------------------------------------------------------- textual split

\* Feature::hasHash
hasHash(featureIdx, sampleIdx, hashIdx) ==
  hashIdx \in At(features_[featureIdx + 1].hashSet, sampleIdx)

\* math::incrementSquaredFrequency: the count of x goes from c to c + 1 and
\* the sum of squared counts grows by 2c + 1; a missing x as a key of the map
\* leaves the sum unspecified
incrementSquaredFrequency(x, st) ==
  IF isNAN(x) THEN [st EXCEPT !.undef = TRUE]
  ELSE LET c == IF x \in DOMAIN st.freq THEN st.freq[x] ELSE 0 IN
    [freq |-> [y \in DOMAIN st.freq \cup {x} |-> IF y = x THEN c + 1 ELSE st.freq[y]],
     sf |-> st.sf + 2 * c + 1, undef |-> st.undef]

\* Treedata::textualFeatureSplit, lines 1060-1072: the pass for a numeric target
RECURSIVE textualRegr_loop(_, _, _, _, _)
textualRegr_loop(targetIdx, featureIdx, hashIdx, i, st) ==
  IF i >= st.n_tot THEN st
  ELSE LET idx == At(st.sampleIcs_right, i)
           x == RatOf(At(features_[targetIdx + 1].data, idx))
           tot == RAdd(st.mu_tot, RDivInt(x, st.n_tot)) IN
    IF hasHash(featureIdx, idx, hashIdx)
    THEN textualRegr_loop(targetIdx, featureIdx, hashIdx, i + 1,
           [st EXCEPT !.sampleIcs_left = Put(@, st.n_left, idx),
                      !.n_left = @ + 1,
                      !.mu_left = RAdd(@, RDivInt(RSub(x, @), st.n_left + 1)),
                      !.mu_tot = tot])
    ELSE textualRegr_loop(targetIdx, featureIdx, hashIdx, i + 1,
           [st EXCEPT !.sampleIcs_right = Put(@, st.n_right, idx),
                      !.n_right = @ + 1,
                      !.mu_right = RAdd(@, RDivInt(RSub(x, @), st.n_right + 1)),
                      !.mu_tot = tot])

\* Treedata::textualFeatureSplit, lines 1084-1095: the pass for a categorical target
RECURSIVE textualClass_loop(_, _, _, _, _)
textualClass_loop(targetIdx, featureIdx, hashIdx, i, st) ==
  IF i >= Len(st.sampleIcs_right) THEN st
  ELSE LET idx == At(st.sampleIcs_right, i)
           x == At(features_[targetIdx + 1].data, idx)
           tot == incrementSquaredFrequency(x, st.tot) IN
    IF hasHash(featureIdx, idx, hashIdx)
    THEN textualClass_loop(targetIdx, featureIdx, hashIdx, i + 1,
           [st EXCEPT !.sampleIcs_left = Put(@, st.n_left, idx),
                      !.n_left = @ + 1,
                      !.left = incrementSquaredFrequency(x, @),
                      !.tot = tot])
    ELSE textualClass_loop(targetIdx, featureIdx, hashIdx, i + 1,
           [st EXCEPT !.sampleIcs_right = Put(@, st.n_right, idx),
                      !.n_right = @ + 1,
                      !.right = incrementSquaredFrequency(x, @),
                      !.tot = tot])

\* mutant: the right list keeps its input length
textualOutcome_rightNotResized(st, DI_best, minSamples) ==
  IF st.n_left < minSamples \/ st.n_right < minSamples
  THEN [DI |-> Zero, sampleIcs_left |-> st.sampleIcs_left,
        sampleIcs_right |-> st.sampleIcs_right]
  ELSE [DI |-> DI_best, sampleIcs_left |-> resize(st.sampleIcs_left, st.n_left),
        sampleIcs_right |-> st.sampleIcs_right]

\* Treedata::textualFeatureSplit, lines 1102-1109: the size test, the resizes
textualOutcome(st, DI_best, minSamples) ==
  IF st.n_left < minSamples \/ st.n_right < minSamples
  THEN [DI |-> Zero, sampleIcs_left |-> st.sampleIcs_left,
        sampleIcs_right |-> st.sampleIcs_right]
  ELSE [DI |-> DI_best, sampleIcs_left |-> resize(st.sampleIcs_left, st.n_left),
        sampleIcs_right |-> resize(st.sampleIcs_right, st.n_right)]

\* Treedata::textualFeatureSplit
textualFeatureSplit(targetIdx, featureIdx, hashIdx, minSamples, sampleIcs_left, sampleIcs_right) ==
  LET n_tot == Len(sampleIcs_right)
      noFreq == [freq |-> <<>>, sf |-> 0, undef |-> FALSE] IN
  IF isFeatureNumerical(targetIdx)
  THEN LET st == textualRegr_loop(targetIdx, featureIdx, hashIdx, 0,
                   [sampleIcs_left |-> resize(sampleIcs_left, n_tot),
                    sampleIcs_right |-> sampleIcs_right, n_tot |-> n_tot,
                    n_left |-> 0, n_right |-> 0,
                    mu_left |-> Zero, mu_right |-> Zero, mu_tot |-> Zero]) IN
    textualOutcome(st,
      deltaImpurity_regr(st.mu_tot, n_tot, st.mu_left, st.n_left, st.mu_right, st.n_right),
      minSamples)
  ELSE LET st == textualClass_loop(targetIdx, featureIdx, hashIdx, 0,
                   [sampleIcs_left |-> resize(sampleIcs_left, n_tot),
                    sampleIcs_right |-> sampleIcs_right, n_tot |-> n_tot,
                    n_left |-> 0, n_right |-> 0,
                    left |-> noFreq, right |-> noFreq, tot |-> noFreq]) IN
    textualOutcome(st,
      IF st.tot.undef THEN UndefScore
      ELSE deltaImpurity_class(st.tot.sf, n_tot, st.left.sf, st.n_left,
                               st.right.sf, st.n_right),
      minSamples)

\* the hash tokens a caller tries: those of the table's texts and a foreign one
HashChoices == {hsieh("r"), hsieh("s"), hsieh("q")}

\* a caller tries the split of a textual feature on one hash token
TextualFeatureSplitOn(minSet, icsSet) ==
  /\ call.op = "idle"
  /\ \E targetIdx \in DataFeatures, featureIdx \in TxtFeatures, hashIdx \in HashChoices,
        minSamples \in minSet, ics \in icsSet :
       \E u \in PastEndOutcomes({targetIdx}, ics) :
       \E r \in {textualFeatureSplit(targetIdx, featureIdx, hashIdx, minSamples,
                                      StaleLeft, InsideOf({targetIdx}, ics))} :
       call' = [NoCall EXCEPT !.op = "textualFeatureSplit",
                  !.targetIdx = targetIdx, !.featureIdx = featureIdx,
                  !.hashIdx = hashIdx, !.minSamples = minSamples,
                  !.icsIn = ics, !.leftIn = StaleLeft,
                  !.sampleIcs_left = r.sampleIcs_left,
                  !.sampleIcs_right = r.sampleIcs_right, !.DI = r.DI,
                  !.exited = u.exited, !.pastEnd = u.pastEnd]
  /\ UNCHANGED tableVars

\* the call over every input within the bounds
TextualFeatureSplit == TextualFeatureSplitOn(1..MaxMinSamples, IcsSet)

\* ---------------------------------------------------------------- getHash

\* the largest integer a caller selects a token by
MaxKey == 4

\* std::unordered_set iteration: the tokens of a set, each once, in an order
\* the container fixes
iterationOrders(hashes) ==
  {q \in [1..Cardinality(hashes) -> hashes] :
     \A i, j \in 1..Cardinality(hashes) : q[i] = q[j] => i = j}

\* mutant: the token the iteration begins at, whatever the integer
Feature_getHash_begin(order, integer) == At(order, 0)

\* Feature::getHash, lines 77-84: the token integer % size steps into the
\* iteration of the sample's set
Feature_getHash(order, integer) == At(order, integer % Len(order))

\* what a read through the end of an empty set may find
StrayTokens == {0}

\* Treedata::getHash: the outcomes. A feature that is not textual fails the
\* assertion; an empty set makes the remainder by zero undefined: the process
\* ends, or the read finds some value.
getHash(featureIdx, sampleIdx, integer) ==
  IF ~isFeatureTextual(featureIdx) THEN {[exited |-> TRUE, result |-> 0, order |-> <<>>]}
  ELSE LET hashes == At(At(features_, featureIdx).hashSet, sampleIdx) IN
    IF hashes = {}
    THEN {[exited |-> TRUE, result |-> 0, order |-> <<>>]}
           \cup {[exited |-> FALSE, result |-> t, order |-> <<>>] : t \in StrayTokens}
    ELSE {[exited |-> FALSE, result |-> Feature_getHash(order, integer), order |-> order] :
            order \in iterationOrders(hashes)}

\* a caller selects a token of a sample by an integer
GetHash ==
  /\ call.op = "idle"
  /\ \E featureIdx \in 0..(Len(features_) - 1), sampleIdx \in 0..(nSamples - 1),
        integer \in 0..MaxKey :
       \E r \in getHash(featureIdx, sampleIdx, integer) :
         call' = [NoCall EXCEPT !.op = "getHash", !.featureIdx = featureIdx,
                    !.sampleIdx = sampleIdx, !.integer = integer, !.result = r.result,
                    !.order = r.order, !.exited = r.exited, !.before = features_]
  /\ UNCHANGED tableVars

\* the caller takes the results; the table is ready for the next call
Return ==
  /\ call.op \notin {"idle", "unbuilt"}
  /\ ~call.exited
  /\ call' = NoCall
  /\ UNCHANGED tableVars

Next ==
  \/ GetFilteredFeatureData
  \/ GetFilteredFeatureDataPair
  \/ NumericalFeatureSplit
  \/ CategoricalFeatureSplit
  \/ TextualFeatureSplit
  \/ GetHash
  \/ Return

Spec == Init /\ [][Next]_vars

\* ------------------------------------------------------------ construction

\* std::unordered_map::operator[] assignment: the key's entry set or replaced
MapPut(m, k, v) == [x \in DOMAIN m \cup {k} |-> IF x = k THEN v ELSE m[x]]

\* Treedata::createContrasts, lines 302-307: the copy of feature i - nFeatures
\* stored at i under the name with "_CONTRAST" appended, and indexed
RECURSIVE createContrasts_loop(_, _, _)
createContrasts_loop(t, nFeatures, i) ==
  IF i >= 2 * nFeatures THEN t
  ELSE LET copy == [At(t.features, i - nFeatures) EXCEPT !.name = @ \o "_CONTRAST"] IN
    createContrasts_loop(
      [t EXCEPT !.features = Put(@, i, copy), !.name2idx = MapPut(@, copy.name, i)],
      nFeatures, i + 1)

\* mutant: the contrast keeps the name of its original
createContrasts_sameName(t) ==
  [t EXCEPT !.features = @ \o @]

\* Treedata::createContrasts
createContrasts(t) ==
  LET nFeatures == Len(t.features) IN
  createContrasts_loop([t EXCEPT !.features = resize(@, 2 * nFeatures)], nFeatures, nFeatures)

\* mutant: the columns are indexed without the test of their length
RECURSIVE indexFeatures_anyLength(_, _, _, _)
indexFeatures_anyLength(features, nSamples_, featureIdx, name2idx) ==
  IF featureIdx >= Len(features) THEN [ok |-> TRUE, name2idx |-> name2idx]
  ELSE indexFeatures_anyLength(features, nSamples_, featureIdx + 1,
                               MapPut(name2idx, At(features, featureIdx).name, featureIdx))

\* Treedata::Treedata(features, ...), lines 149-153: every column is as long as
\* the first, and its name is indexed, a later feature replacing an earlier
\* one of the same name
RECURSIVE indexFeatures(_, _, _, _)
indexFeatures(features, nSamples_, featureIdx, name2idx) ==
  IF featureIdx >= Len(features) THEN [ok |-> TRUE, name2idx |-> name2idx]
  ELSE IF Len(At(features, featureIdx).data) # nSamples_
  THEN [ok |-> FALSE, name2idx |-> name2idx]
  ELSE indexFeatures(features, nSamples_, featureIdx + 1,
                     MapPut(name2idx, At(features, featureIdx).name, featureIdx))

\* a constructor that ends the process leaves no table
NoTable == [ok |-> FALSE, features |-> <<>>, name2idx |-> <<>>, sampleHeaders |-> <<>>]

\* mutant: the contrasts are made whatever the flag says
contrastsIfAsked_always(t, useContrasts) == createContrasts(t)

\* the constructors' last step: createContrasts once, when the flag is set
contrastsIfAsked(t, useContrasts) == IF useContrasts THEN createContrasts(t) ELSE t

\* Treedata::Treedata(const vector<Feature>&, const bool, const vector<string>&);
\* a failed assertion ends the process
TreedataFromFeatures(features, useContrasts, sampleHeaders) ==
  IF Len(features) = 0 THEN NoTable
  ELSE LET nSamples_ == Len(features[1].data)
           indexed == indexFeatures(features, nSamples_, 0, <<>>)
           headers == IF Len(sampleHeaders) = 0
                      THEN [i \in 1..nSamples_ |-> "NO_SAMPLE_ID"]
                      ELSE sampleHeaders IN
    IF ~indexed.ok \/ nSamples_ = 0 \/ Len(headers) # nSamples_ THEN NoTable
    ELSE contrastsIfAsked([ok |-> TRUE, features |-> features,
                           name2idx |-> indexed.name2idx, sampleHeaders |-> headers],
                          useContrasts)

\* two columns of the input carry the same header
HasDuplicateHeader(columns) ==
  \E i, j \in 1..Len(columns) : i < j /\ columns[i].name = columns[j].name

\* Treedata::Treedata(fileName, ...), lines 237-286, on the columns and sample
\* labels the reader hands over: a repeated header ends the process
TreedataFromFile(columns, sampleHeaders, useContrasts) ==
  IF HasDuplicateHeader(columns) THEN NoTable
  ELSE LET t == TreedataFromColumns(columns, sampleHeaders) IN
    contrastsIfAsked([ok |-> TRUE, features |-> t.features, name2idx |-> t.name2idx,
                      sampleHeaders |-> t.sampleHeaders], useContrasts)

\* the columns a consumer builds tables from: three samples, a missing value
\* in each data column
ColumnA == [type |-> "NUM", name |-> "N:a", raw |-> <<1, NUM_NAN, 2>>]

ColumnB == [type |-> "CAT", name |-> "C:b", raw |-> <<"x", "y", STR_NAN>>]

ColumnT == [type |-> "TXT", name |-> "T:t", raw |-> << <<"r">>, <<"s">>, <<"r", "s">> >>]

\* a second column under the name of the first
ColumnA2 == [type |-> "NUM", name |-> "N:a", raw |-> <<2, 2, 1>>]

\* a column under the name the contrast of the first is given
ColumnAC == [type |-> "NUM", name |-> "N:a_CONTRAST", raw |-> <<2, 2, 1>>]

\* a column one sample short
ColumnS == [type |-> "NUM", name |-> "N:s", raw |-> <<3, 1>>]

FeatureOf(column) ==
  IF column.type = "NUM" THEN FeatureNum(column.raw, column.name)
  ELSE FeatureStr(column.raw, column.name, column.type = "TXT")

\* the column lists handed to a constructor
ColumnLists ==
  { <<>>, <<ColumnA, ColumnB>>, <<ColumnA, ColumnT>>, <<ColumnA, ColumnA2>>,
    <<ColumnA, ColumnS>>, <<ColumnT>>, <<ColumnA, ColumnAC>>, <<ColumnA>> }

\* the sample labels handed to the batch constructor: none, or too few
SampleHeaderLists == { <<>>, <<"s0", "s1">> }

\* the state before a constructor has run
Unbuilt == [NoCall EXCEPT !.op = "unbuilt"]

InitTable ==
  /\ features_ = <<>>
  /\ name2idx_ = <<>>
  /\ sampleHeaders_ = <<>>
  /\ useContrasts_ = FALSE
  /\ call = Unbuilt

\* what a constructor leaves: the table, or the ended process
Constructed(op, input, useContrasts, t) ==
  /\ call' = [NoCall EXCEPT !.op = op, !.newData = input, !.exited = ~t.ok]
  /\ features_' = t.features
  /\ name2idx_' = t.name2idx
  /\ sampleHeaders_' = t.sampleHeaders
  /\ useContrasts_' = useContrasts

\* a consumer builds a table from features it made itself
ConstructFromFeatures ==
  /\ call.op = "unbuilt"
  /\ \E columns \in ColumnLists, useContrasts \in BOOLEAN,
        sampleHeaders \in SampleHeaderLists :
       \E features \in {[i \in 1..Len(columns) |-> FeatureOf(columns[i])]} :
       \E t \in {TreedataFromFeatures(features, useContrasts, sampleHeaders)} :
         Constructed("TreedataFromFeatures", features, useContrasts, t)

\* a consumer builds a table from a file; a reader needs a column to make a file
ConstructFromFile ==
  /\ call.op = "unbuilt"
  /\ \E columns \in ColumnLists \ {<<>>}, useContrasts \in BOOLEAN :
       /\ \A i \in 1..Len(columns) : Len(columns[i].raw) = Len(columns[1].raw)
       /\ \E t \in {TreedataFromFile(columns,
                      [i \in 1..Len(columns[1].raw) |-> "NO_SAMPLE_ID"], useContrasts)} :
            Constructed("TreedataFromFile", columns, useContrasts, t)

\* Treedata::nFeatures
nFeatures == IF useContrasts_ THEN Len(features_) \div 2 ELSE Len(features_)

\* ---------------------------------------------------- replaceFeatureData

\* mutant: the contrast of the feature is given the new values too
replaceFeatureData_num_bothCopies(featureIdx, featureData) ==
  IF Len(featureData) # Len(At(features_, featureIdx).data)
  THEN [exited |-> TRUE, features |-> features_]
  ELSE LET stored == Put(features_, featureIdx,
                         FeatureNum(featureData, At(features_, featureIdx).name)) IN
    [exited |-> FALSE,
     features |-> IF useContrasts_ /\ featureIdx + nFeatures < Len(features_)
                  THEN Put(stored, featureIdx + nFeatures,
                           FeatureNum(featureData,
                                      At(features_, featureIdx + nFeatures).name))
                  ELSE stored]

\* Treedata::replaceFeatureData(const size_t, const vector<num_t>&)
replaceFeatureData_num(featureIdx, featureData) ==
  IF Len(featureData) # Len(At(features_, featureIdx).data)
  THEN [exited |-> TRUE, features |-> features_]
  ELSE [exited |-> FALSE,
        features |-> Put(features_, featureIdx,
                         FeatureNum(featureData, At(features_, featureIdx).name))]

\* Treedata::replaceFeatureData(const size_t, const vector<string>&)
replaceFeatureData_str(featureIdx, rawFeatureData) ==
  IF Len(rawFeatureData) # Len(At(features_, featureIdx).data)
  THEN [exited |-> TRUE, features |-> features_]
  ELSE [exited |-> FALSE,
        features |-> Put(features_, featureIdx,
                         FeatureStr(rawFeatureData, At(features_, featureIdx).name, FALSE))]

\* the numeric columns a caller stores: all missing, none at all, one short
NewNumericData == { <<NUM_NAN, NUM_NAN, NUM_NAN>>, <<>>, <<7, 8>> }

\* the string columns a caller stores: a full one, a short one
NewStringData == { <<"y", "y", "x">>, <<"x">> }

\* what a replacement leaves: the table with the new feature, or the ended process
Replaced(op, featureIdx, newData, r) ==
  /\ call' = [NoCall EXCEPT !.op = op, !.featureIdx = featureIdx, !.newData = newData,
                !.before = features_, !.exited = r.exited]
  /\ features_' = r.features
  /\ UNCHANGED <<name2idx_, sampleHeaders_, useContrasts_>>

\* a caller stores a numeric column in place of a feature
ReplaceFeatureDataNum ==
  /\ call.op = "idle"
  /\ \E featureIdx \in 0..(Len(features_) - 1), featureData \in NewNumericData :
       \E r \in {replaceFeatureData_num(featureIdx, featureData)} :
         Replaced("replaceFeatureData_num", featureIdx, featureData, r)

\* a caller stores a string column in place of a feature
ReplaceFeatureDataStr ==
  /\ call.op = "idle"
  /\ \E featureIdx \in 0..(Len(features_) - 1), rawFeatureData \in NewStringData :
       \E r \in {replaceFeatureData_str(featureIdx, rawFeatureData)} :
         Replaced("replaceFeatureData_str", featureIdx, rawFeatureData, r)

\* ------------------------------------------------------ permuteContrasts

\* the orders a random source may put n things in, as positions 0..n-1
Orders(n) == {p \in [1..n -> 0..(n - 1)] : \A i, j \in 1..n : p[i] = p[j] => i = j}

\* utils::permute: the values in any order the random source produces
permute(v) == {[i \in 1..Len(v) |-> At(v, p[i])] : p \in Orders(Len(v))}

\* Treedata::permuteContrasts, lines 659-661: the values written back to the
\* samples the filter kept
RECURSIVE writeBack(_, _, _, _)
writeBack(data, sampleIcs, filteredData, j) ==
  IF j >= Len(sampleIcs) THEN data
  ELSE writeBack(Put(data, At(sampleIcs, j), At(filteredData, j)),
                 sampleIcs, filteredData, j + 1)

\* mutant: the permuted values are written to the first samples
permuteContrast_packed(feature, sampleIcs, filteredData) ==
  [feature EXCEPT !.data = writeBack(@, range(Len(sampleIcs)), filteredData, 0)]

\* Treedata::permuteContrasts, lines 659-661, for one contrast feature
permuteContrast(feature, sampleIcs, filteredData) ==
  [feature EXCEPT !.data = writeBack(@, sampleIcs, filteredData, 0)]

\* Treedata::permuteContrasts, lines 650-661: the outcomes for one index of
\* the loop. An index past the end of the stored features, and a feature that
\* holds fewer values than the table has samples, are read past the end: the
\* process ends, or the read finds nothing to permute.
permuteContrast_outcomes(featureIdx) ==
  IF featureIdx >= Len(features_)
  THEN {[exited |-> TRUE, feature |-> <<>>], [exited |-> FALSE, feature |-> <<>>]}
  ELSE LET feature == At(features_, featureIdx) IN
  IF Len(feature.data) < nSamples
  THEN {[exited |-> TRUE, feature |-> feature], [exited |-> FALSE, feature |-> feature]}
  ELSE LET f == Once(getFilteredFeatureData(featureIdx, range(nSamples))) IN
    {[exited |-> FALSE, feature |-> permuteContrast(feature, f.sampleIcs, filteredData)] :
       filteredData \in permute(f.featureData)}

\* Treedata::permuteContrasts: every outcome of the loop over the indices
\* nFeatures() .. 2*nFeatures()-1, with the indices the loop addressed
RECURSIVE permuteContrasts_from(_, _)
permuteContrasts_from(features, i) ==
  IF i >= 2 * nFeatures THEN {[exited |-> FALSE, features |-> features, addressed |-> {}]}
  ELSE UNION {
    IF o.exited THEN {[exited |-> TRUE, features |-> features, addressed |-> {i}]}
    ELSE {[r EXCEPT !.addressed = @ \cup {i}] :
            r \in permuteContrasts_from(
                    IF i < Len(features) THEN Put(features, i, o.feature) ELSE features,
                    i + 1)}
    : o \in permuteContrast_outcomes(i) }

permuteContrasts == permuteContrasts_from(features_, nFeatures)

\* a caller shuffles the contrasts
PermuteContrasts ==
  /\ call.op = "idle"
  /\ \E r \in permuteContrasts :
       /\ call' = [NoCall EXCEPT !.op = "permuteContrasts", !.before = features_,
                     !.exited = r.exited, !.addressed = r.addressed]
       /\ features_' = r.features
  /\ UNCHANGED <<name2idx_, sampleHeaders_, useContrasts_>>

\* ------------------------------------------------ bootstrapFromRealSamples

\* std::sort on a list of sample indices
RECURSIVE sort(_)
sort(v) ==
  IF Len(v) = 0 THEN <<>>
  ELSE LET rest == sort(SubSeq(v, 2, Len(v)))
           k == Cardinality({i \in 1..Len(rest) : rest[i] < v[1]}) IN
    SubSeq(rest, 1, k) \o <<v[1]>> \o SubSeq(rest, k + 1, Len(rest))

\* std::set_difference on two sorted lists: an entry of a is written unless an
\* entry of b pairs off with it
RECURSIVE set_difference(_, _)
set_difference(a, b) ==
  IF Len(a) = 0 THEN <<>>
  ELSE IF Len(b) = 0 THEN a
  ELSE IF a[1] < b[1] THEN <<a[1]>> \o set_difference(Tail(a), b)
  ELSE IF b[1] < a[1] THEN set_difference(a, Tail(b))
  ELSE set_difference(Tail(a), Tail(b))

\* Treedata::bootstrapFromRealSamples, lines 766-771: the samples whose value
\* of the feature is present, ascending
allIcsOf(featureIdx) ==
  SelectSeq(InsideOf({featureIdx}, range(nSamples)),
            LAMBDA i : ~isNAN(At(At(features_, featureIdx).data, i)))

\* line 775: floor(sampleSize * nRealSamples), sampleSize the fraction n / d
floorOf(sampleSize, nRealSamples) == (sampleSize[1] * nRealSamples) \div sampleSize[2]

\* the greatest value the model lets random->integer() return
MaxRandom == 2

\* what the random source may hand to one call: nSamples integers when
\* sampling with replacement, an order of the real samples otherwise
RandomFor(withReplacement, nSamples_, nRealSamples) ==
  IF withReplacement THEN [1..nSamples_ -> 0..MaxRandom] ELSE Orders(nRealSamples)

\* mutant: the draw is returned as drawn
drawn_unsorted(allIcs, withReplacement, nSamples_, random) ==
  IF withReplacement
  THEN [i \in 1..nSamples_ |-> At(allIcs, random[i] % Len(allIcs))]
  ELSE [i \in 1..nSamples_ |-> At(allIcs, random[i])]

\* mutant: sampling without replacement takes the real samples from the front
drawn_front(allIcs, withReplacement, nSamples_, random) ==
  IF withReplacement
  THEN sort([i \in 1..nSamples_ |-> At(allIcs, random[i] % Len(allIcs))])
  ELSE sort([i \in 1..nSamples_ |-> At(allIcs, 0)])

\* mutant: one draw too few
drawn_short(allIcs, withReplacement, nSamples_, random) ==
  IF withReplacement
  THEN sort([i \in 1..(nSamples_ - 1) |-> At(allIcs, random[i] % Len(allIcs))])
  ELSE sort([i \in 1..nSamples_ |-> At(allIcs, random[i])])

\* lines 779-792: the in-bag list, drawn and sorted
drawn(allIcs, withReplacement, nSamples_, random) ==
  IF withReplacement
  THEN sort([i \in 1..nSamples_ |-> At(allIcs, random[i] % Len(allIcs))])
  ELSE sort([i \in 1..nSamples_ |-> At(allIcs, random[i])])

\* mutant: a fraction above 1 is refused in either mode
sampleSizeRefused_anyMode(withReplacement, sampleSize) ==
  \/ ~(sampleSize[1] > 0)
  \/ sampleSize[1] > sampleSize[2]

\* lines 759-763: the assertion sampleSize > 0 and the test of the fraction
\* when sampling without replacement
sampleSizeRefused(withReplacement, sampleSize) ==
  \/ ~(sampleSize[1] > 0)
  \/ (~withReplacement /\ sampleSize[1] > sampleSize[2])

\* Treedata::bootstrapFromRealSamples, once the random source has answered
bootstrapFromRealSamples(random, withReplacement, sampleSize, featureIdx, ics, oobIcs) ==
  IF sampleSizeRefused(withReplacement, sampleSize)
  THEN [exited |-> TRUE, ics |-> ics, oobIcs |-> oobIcs]
  ELSE LET allIcs == allIcsOf(featureIdx)
           nSamples_ == floorOf(sampleSize, Len(allIcs))
           inBag == Once(drawn(allIcs, withReplacement, nSamples_, random)) IN
    [exited |-> FALSE, ics |-> inBag, oobIcs |-> set_difference(allIcs, inBag)]

\* the fractions a caller asks for, as n / d: none, half, all, one and a half
SampleSizes == { <<0, 1>>, <<1, 2>>, <<1, 1>>, <<3, 2>> }

\* what a caller's output lists may hold when they are handed in
StaleIcs == <<2, 0>>

\* a caller draws a bootstrap sample of the samples a data feature is present in
BootstrapFromRealSamples ==
  /\ call.op = "idle"
  /\ \E featureIdx \in DataFeatures, withReplacement \in BOOLEAN, sampleSize \in SampleSizes :
       \E u \in IF sampleSizeRefused(withReplacement, sampleSize)
                THEN {[pastEnd |-> FALSE, exited |-> FALSE]}
                ELSE PastEndOutcomes({featureIdx}, range(nSamples)) :
          \E random \in
            IF sampleSizeRefused(withReplacement, sampleSize) THEN {<<>>}
            ELSE RandomFor(withReplacement,
                           floorOf(sampleSize, Len(allIcsOf(featureIdx))),
                           Len(allIcsOf(featureIdx))) :
            \E r \in {bootstrapFromRealSamples(random, withReplacement, sampleSize,
                                               featureIdx, StaleIcs, StaleIcs)} :
              call' = [NoCall EXCEPT !.op = "bootstrapFromRealSamples",
                         !.featureIdx = featureIdx, !.withReplacement = withReplacement,
                         !.sampleSize = sampleSize, !.random = random,
                         !.icsIn2 = StaleIcs, !.oobIcsIn = StaleIcs,
                         !.ics = r.ics, !.oobIcs = r.oobIcs,
                         !.exited = (r.exited \/ u.exited), !.pastEnd = u.pastEnd]
  /\ UNCHANGED tableVars

\* ---------------------------------------------------------------- lookups

\* Treedata::end: the value no feature index takes
end == MAX_IDX

\* mutant: a name the index does not hold resolves to the first feature
getFeatureIdx_firstOnMiss(featureName) ==
  IF featureName \notin DOMAIN name2idx_ THEN 0 ELSE name2idx_[featureName]

\* Treedata::getFeatureIdx
getFeatureIdx(featureName) ==
  IF featureName \notin DOMAIN name2idx_ THEN end ELSE name2idx_[featureName]

\* Treedata::getFeatureName
getFeatureName(featureIdx) == At(features_, featureIdx).name

\* the names a caller looks up: those of the columns, of their contrasts, and
\* one no column carries
FeatureNames ==
  {"N:a", "C:b", "T:t", "N:s", "N:a_CONTRAST", "C:b_CONTRAST", "T:t_CONTRAST", "N:none"}

\* a caller looks a feature up by its name
GetFeatureIdx ==
  /\ call.op = "idle"
  /\ \E featureName \in FeatureNames :
       \E r \in {getFeatureIdx(featureName)} :
         call' = [NoCall EXCEPT !.op = "getFeatureIdx", !.featureName = featureName,
                    !.result = r, !.before = features_, !.name2idxBefore = name2idx_]
  /\ UNCHANGED tableVars

\* utils::num2str: the number written out
num2str(data) == ToString(data)

\* std::map::operator[]: the value under the key, which is entered with the
\* empty string when the map does not hold it
MapIndex(m, k) ==
  IF k \in DOMAIN m THEN [value |-> m[k], map |-> m]
  ELSE [value |-> "", map |-> MapPut(m, k, "")]

\* mutant: the back-map is indexed without the test that it holds the code
getRawFeatureData_unchecked(featureIdx, data) ==
  LET feature == At(features_, featureIdx)
      looked == MapIndex(feature.backMapping, data) IN
  IF isNAN(data) THEN [exited |-> FALSE, rawValue |-> STR_NAN, features |-> features_]
  ELSE IF isFeatureNumerical(featureIdx)
  THEN [exited |-> FALSE, rawValue |-> num2str(data), features |-> features_]
  ELSE [exited |-> FALSE, rawValue |-> looked.value,
        features |-> Put(features_, featureIdx, [feature EXCEPT !.backMapping = looked.map])]

\* Treedata::getRawFeatureData(const size_t, const num_t)
getRawFeatureData(featureIdx, data) ==
  LET feature == At(features_, featureIdx)
      looked == MapIndex(feature.backMapping, data) IN
  IF isNAN(data) THEN [exited |-> FALSE, rawValue |-> STR_NAN, features |-> features_]
  ELSE IF isFeatureNumerical(featureIdx)
  THEN [exited |-> FALSE, rawValue |-> num2str(data), features |-> features_]
  ELSE IF data \notin DOMAIN feature.backMapping
  THEN [exited |-> TRUE, rawValue |-> "", features |-> features_]
  ELSE [exited |-> FALSE, rawValue |-> looked.value,
        features |-> Put(features_, featureIdx, [feature EXCEPT !.backMapping = looked.map])]

\* the values a read past the end of a column may find
StrayValues == {NUM_NAN, 0}

\* Treedata::getRawFeatureData(const size_t, const size_t): the outcomes. A
\* feature that holds no value for the sample is read past its end: the
\* process ends, or the read finds some value.
getRawFeatureDataAt(featureIdx, sampleIdx) ==
  LET data == At(features_, featureIdx).data IN
  IF sampleIdx < Len(data) THEN {getRawFeatureData(featureIdx, At(data, sampleIdx))}
  ELSE {[exited |-> TRUE, rawValue |-> "", features |-> features_]}
         \cup {getRawFeatureData(featureIdx, d) : d \in StrayValues}

\* the values a caller asks the string of: missing, codes a table holds and
\* one it does not
RawCodes == {NUM_NAN, 0, 1, 5}

\* what a read of a raw value leaves
RawRead(op, featureIdx, sampleIdx, data, r) ==
  /\ call' = [NoCall EXCEPT !.op = op, !.featureIdx = featureIdx, !.sampleIdx = sampleIdx,
                !.data = data, !.rawValue = r.rawValue, !.exited = r.exited,
                !.before = features_, !.name2idxBefore = name2idx_]
  /\ features_' = r.features
  /\ UNCHANGED <<name2idx_, sampleHeaders_, useContrasts_>>

\* a caller asks for the string of a value
GetRawFeatureData ==
  /\ call.op = "idle"
  /\ \E featureIdx \in 0..(Len(features_) - 1), data \in RawCodes :
       \E r \in {getRawFeatureData(featureIdx, data)} :
         RawRead("getRawFeatureData", featureIdx, 0, data, r)

\* a caller asks for the string of a sample's value
GetRawFeatureDataAt ==
  /\ call.op = "idle"
  /\ \E featureIdx \in 0..(Len(features_) - 1), sampleIdx \in 0..(nSamples - 1) :
       \E r \in getRawFeatureDataAt(featureIdx, sampleIdx) :
         RawRead("getRawFeatureData_at", featureIdx, sampleIdx,
                 IF sampleIdx < Len(At(features_, featureIdx).data)
                 THEN At(At(features_, featureIdx).data, sampleIdx) ELSE NUM_NAN, r)

\* -------------------------------------------------- a table through its life

\* the sample list the calls of a table's life are made on
WholeRange == {range(nSamples)}

\* mutant: the filter compacts the feature's own values along with the list
FilterOnTable_inPlace ==
  /\ call.op = "idle"
  /\ \E featureIdx \in DataFeatures, ics \in WholeRange :
       \E r \in {getFilteredFeatureData(featureIdx, InsideOf({featureIdx}, ics))} :
         /\ call' = [NoCall EXCEPT !.op = "getFilteredFeatureData",
                       !.featureIdx = featureIdx, !.icsIn = ics,
                       !.sampleIcs_right = r.sampleIcs, !.featureData1 = r.featureData]
         /\ features_' = Put(features_, featureIdx,
                             [At(features_, featureIdx) EXCEPT !.data = r.featureData])
  /\ UNCHANGED <<name2idx_, sampleHeaders_, useContrasts_>>

FilterOnTable == GetFilteredFeatureDataOn(WholeRange)

FilterPairOnTable == GetFilteredFeatureDataPairOn(WholeRange)

NumericalSplitOnTable == NumericalFeatureSplitOn({1}, WholeRange)

CategoricalSplitOnTable == CategoricalFeatureSplitOn({1}, WholeRange)

TextualSplitOnTable == TextualFeatureSplitOn({1}, WholeRange)

\* the most features a table is let grow to
MaxStored == 4

\* a caller adds a contrast for every stored feature
CreateContrasts ==
  /\ call.op = "idle"
  /\ 2 * Len(features_) <= MaxStored
  /\ \E t \in {createContrasts([features |-> features_, name2idx |-> name2idx_])} :
       /\ call' = [NoCall EXCEPT !.op = "createContrasts", !.before = features_,
                     !.name2idxBefore = name2idx_]
       /\ features_' = t.features
       /\ name2idx_' = t.name2idx
  /\ UNCHANGED <<sampleHeaders_, useContrasts_>>

NextTable ==
  \/ ConstructFromFeatures
  \/ ConstructFromFile
  \/ ReplaceFeatureDataNum
  \/ ReplaceFeatureDataStr
  \/ CreateContrasts
  \/ PermuteContrasts
  \/ BootstrapFromRealSamples
  \/ FilterOnTable
  \/ FilterPairOnTable
  \/ NumericalSplitOnTable
  \/ CategoricalSplitOnTable
  \/ TextualSplitOnTable
  \/ GetFeatureIdx
  \/ GetRawFeatureData
  \/ GetRawFeatureDataAt
  \/ Return

SpecTable == InitTable /\ [][NextTable]_vars

\* ------------------------------------------------------------------ claims

\* the value a stored feature holds for a sample
ValueOf(featureIdx, sampleIdx) == At(features_[featureIdx + 1].data, sampleIdx)

\* the entries of an index list whose value in one feature is present
RealIn(featureIdx, ics) ==
  SelectSeq(ics, LAMBDA idx : ~isNAN(ValueOf(featureIdx, idx)))

\* the entries of an index list whose values in two features are both present
RealInBoth(featureIdx1, featureIdx2, ics) ==
  SelectSeq(ics, LAMBDA idx :
    ~isNAN(ValueOf(featureIdx1, idx)) /\ ~isNAN(ValueOf(featureIdx2, idx)))

HasDuplicates(v) == \E i, j \in 1..Len(v) : i < j /\ v[i] = v[j]

\* C1: after getFilteredFeatureData the index list is the subsequence of the
\* input indices whose feature value is present, in input order; its length is
\* the number of present entries; the value array has that length and holds
\* the feature's value at each retained index.
C1_SingleFilter ==
  call.op = "getFilteredFeatureData" =>
    /\ call.sampleIcs_right = RealIn(call.featureIdx, call.icsIn)
    /\ Len(call.sampleIcs_right) =
         Cardinality({i \in 1..Len(call.icsIn) :
                        ~isNAN(ValueOf(call.featureIdx, call.icsIn[i]))})
    /\ Len(call.featureData1) = Len(call.sampleIcs_right)
    /\ \A j \in 1..Len(call.sampleIcs_right) :
         call.featureData1[j] = ValueOf(call.featureIdx, call.sampleIcs_right[j])

\* a filter call on a list with a repeated index that drops a missing entry
\* standing before a retained one
C1_Witness ==
  /\ call.op = "getFilteredFeatureData"
  /\ HasDuplicates(call.icsIn)
  /\ Len(call.sampleIcs_right) >= 2
  /\ Len(call.sampleIcs_right) < Len(call.icsIn)
  /\ isNAN(ValueOf(call.featureIdx, call.icsIn[1]))

\* C2: getFilteredFeatureDataPair retains an index exactly when both features
\* are present there; the two value arrays and the index list have one length,
\* retained indices keep their input order, and the arrays hold the two
\* features' values at each retained index.
C2_PairFilter ==
  call.op = "getFilteredFeatureDataPair" =>
    /\ call.sampleIcs_right = RealInBoth(call.targetIdx, call.featureIdx, call.icsIn)
    /\ Len(call.featureData1) = Len(call.sampleIcs_right)
    /\ Len(call.featureData2) = Len(call.sampleIcs_right)
    /\ \A j \in 1..Len(call.sampleIcs_right) :
         /\ call.featureData1[j] = ValueOf(call.targetIdx, call.sampleIcs_right[j])
         /\ call.featureData2[j] = ValueOf(call.featureIdx, call.sampleIcs_right[j])

\* a pair filter that drops one entry for the first feature and another for
\* the second, and keeps an entry behind them
C2_Witness ==
  /\ call.op = "getFilteredFeatureDataPair"
  /\ call.targetIdx # call.featureIdx
  /\ \E i, j, k \in 1..Len(call.icsIn) :
       /\ i < k /\ j < k
       /\ isNAN(ValueOf(call.targetIdx, call.icsIn[i]))
       /\ ~isNAN(ValueOf(call.featureIdx, call.icsIn[i]))
       /\ isNAN(ValueOf(call.featureIdx, call.icsIn[j]))
       /\ ~isNAN(ValueOf(call.targetIdx, call.icsIn[j]))
       /\ call.icsIn[k] \in {call.sampleIcs_right[m] : m \in 1..Len(call.sampleIcs_right)}

\* the last call is one of the three split searches
IsSplitCall ==
  call.op \in {"numericalFeatureSplit", "categoricalFeatureSplit", "textualFeatureSplit"}

\* the sample has the hash token of the call in its token set
HasToken(idx) == call.hashIdx \in At(features_[call.featureIdx + 1].hashSet, idx)

Count(v, x) == Cardinality({i \in 1..Len(v) : v[i] = x})

Entries(v) == {v[i] : i \in 1..Len(v)}

\* two lists hold the same entries, each as often in one as in the other
SameEntries(a, b) ==
  /\ Len(a) = Len(b)
  /\ \A x \in Entries(a) \cup Entries(b) : Count(a, x) = Count(b, x)

\* a list of samples ordered ascending by a feature, ties in list order
RECURSIVE SortedByFeature(_, _)
SortedByFeature(featureIdx, F) ==
  IF Len(F) = 0 THEN <<>>
  ELSE LET S == SortedByFeature(featureIdx, SubSeq(F, 1, Len(F) - 1))
           x == F[Len(F)]
           k == Cardinality({i \in 1..Len(S) :
                  ValueOf(featureIdx, S[i]) <= ValueOf(featureIdx, x)}) IN
    SubSeq(S, 1, k) \o <<x>> \o SubSeq(S, k + 1, Len(S))

\* the real samples of a split search's list: for the numeric and the
\* categorical search those missing in neither the target nor the candidate
\* feature; the textual search removes no sample
Remaining ==
  CASE call.op \in {"numericalFeatureSplit", "categoricalFeatureSplit"} ->
         RealInBoth(call.targetIdx, call.featureIdx, call.icsIn)
    [] OTHER -> call.icsIn

\* C3: each of the three split searches returns DI = 0 when fewer than
\* 2 * minSamples real samples (missing in neither column) remain in the list,
\* and when a side would hold fewer than minSamples entries; equivalently, a
\* non-zero returned DI implies that the left and the right list each hold at
\* least minSamples entries.
C3_SplitAdmissibility ==
  IsSplitCall =>
    /\ Len(Remaining) < 2 * call.minSamples => IsZero(call.DI)
    /\ (/\ call.op = "textualFeatureSplit"
        /\ \/ Len(SelectSeq(call.icsIn, HasToken)) < call.minSamples
           \/ Len(SelectSeq(call.icsIn, LAMBDA idx : ~HasToken(idx))) < call.minSamples)
         => IsZero(call.DI)
    /\ ~IsZero(call.DI) =>
         /\ Len(call.sampleIcs_left) >= call.minSamples
         /\ Len(call.sampleIcs_right) >= call.minSamples

\* the categorical search handing back a score below the threshold: a DI that
\* is not 0 with an empty left list
C3_BelowEpsReturned ==
  /\ call.op = "categoricalFeatureSplit"
  /\ ~IsZero(call.DI)
  /\ belowEps(call.DI)
  /\ call.sampleIcs_left = <<>>

\* the numeric search scoring a list of which fewer than 2 * minSamples
\* samples are real
C3_TooFewRealScored ==
  /\ call.op = "numericalFeatureSplit"
  /\ Len(Remaining) < 2 * call.minSamples
  /\ ~IsZero(call.DI)

\* C4: after numericalFeatureSplit no sample of the left or right list is
\* missing in the target or in the candidate feature, and the target values
\* given to the boundary scan hold no missing entry.
C4_PairwiseFiltered ==
  call.op = "numericalFeatureSplit" =>
    /\ \A idx \in Entries(call.sampleIcs_left) \cup Entries(call.sampleIcs_right) :
         /\ ~isNAN(ValueOf(call.targetIdx, idx))
         /\ ~isNAN(ValueOf(call.featureIdx, idx))
    /\ ~HasNaN(call.tv)

\* C5: after a numeric split with non-zero DI the split value is the feature
\* value of the last left sample, every left sample has a feature value <= it
\* and every right sample a greater one, the left list is a prefix of the
\* sorted filtered list and the right list the rest, and the two lists together
\* hold the filtered input entries.
C5_NumericPartition ==
  (call.op = "numericalFeatureSplit" /\ ~IsZero(call.DI)) =>
    LET S == SortedByFeature(call.featureIdx, RealIn(call.featureIdx, call.icsIn))
        n_left == Len(call.sampleIcs_left) IN
    /\ n_left >= 1
    /\ call.splitValue = ValueOf(call.featureIdx, call.sampleIcs_left[n_left])
    /\ \A idx \in Entries(call.sampleIcs_left) :
         ValueOf(call.featureIdx, idx) <= call.splitValue
    /\ \A idx \in Entries(call.sampleIcs_right) :
         ValueOf(call.featureIdx, idx) > call.splitValue
    /\ call.sampleIcs_left = SubSeq(S, 1, n_left)
    /\ call.sampleIcs_right = SubSeq(S, n_left + 1, Len(S))
    /\ n_left + Len(call.sampleIcs_right) = Len(RealIn(call.featureIdx, call.icsIn))
    /\ SameEntries(call.sampleIcs_left \o call.sampleIcs_right,
                   RealIn(call.featureIdx, call.icsIn))

\* a numeric split of an unsorted list that drops a missing entry and keeps two
\* samples of equal feature value on the left
C5_Witness ==
  /\ call.op = "numericalFeatureSplit"
  /\ ~IsZero(call.DI)
  /\ Len(RealIn(call.featureIdx, call.icsIn)) < Len(call.icsIn)
  /\ call.sampleIcs_left \o call.sampleIcs_right # RealIn(call.featureIdx, call.icsIn)
  /\ \E i, j \in 1..Len(call.sampleIcs_left) :
       /\ i < j
       /\ call.sampleIcs_left[i] # call.sampleIcs_left[j]
       /\ ValueOf(call.featureIdx, call.sampleIcs_left[i])
            = ValueOf(call.featureIdx, call.sampleIcs_left[j])

\* a categorical split is admissible when its score is not below the threshold
Admissible == ~belowEps(call.DI)

C7_TextualPartition ==
  (/\ call.op = "textualFeatureSplit"
   /\ Len(SelectSeq(call.icsIn, HasToken)) >= call.minSamples
   /\ Len(SelectSeq(call.icsIn, LAMBDA idx : ~HasToken(idx))) >= call.minSamples) =>
    /\ call.sampleIcs_left = SelectSeq(call.icsIn, HasToken)
    /\ call.sampleIcs_right = SelectSeq(call.icsIn, LAMBDA idx : ~HasToken(idx))
    /\ Len(call.sampleIcs_left) + Len(call.sampleIcs_right) = Len(call.icsIn)

\* a textual split with two entries on each side of a list that repeats a
\* sample and starts with one that goes left
C7_Witness ==
  /\ call.op = "textualFeatureSplit"
  /\ call.minSamples = 2
  /\ HasDuplicates(call.icsIn)
  /\ Len(call.sampleIcs_left) = 2
  /\ Len(call.sampleIcs_right) = 2
  /\ HasToken(call.icsIn[1])
  /\ ~HasToken(call.icsIn[2])
  /\ HasToken(call.icsIn[3])

\* C8: when a textual split returns DI = 0 because a side holds fewer than
\* minSamples entries, the caller's index list is unchanged or empty.
C8_TextualInadmissibleList ==
  (/\ call.op = "textualFeatureSplit"
   /\ \/ Len(SelectSeq(call.icsIn, HasToken)) < call.minSamples
      \/ Len(SelectSeq(call.icsIn, LAMBDA idx : ~HasToken(idx))) < call.minSamples) =>
    \/ call.sampleIcs_right = call.icsIn
    \/ call.sampleIcs_right = <<>>

\* C9 as stated: when a numeric split finds no admissible boundary, DI is 0,
\* the left list is empty and the index list holds the retained input indices
\* in their input order.
C9_UnchangedButFiltered ==
  (call.op = "numericalFeatureSplit" /\ Len(call.sampleIcs_left) = 0) =>
    /\ IsZero(call.DI)
    /\ call.sampleIcs_right = RealIn(call.featureIdx, call.icsIn)

\* C9 as amended: when a numeric split finds no admissible boundary, DI is 0,
\* the left list is empty and the index list holds the input indices whose
\* candidate-feature value is present, ordered ascending by that value with
\* ties in input order.
C9_SortedAndFiltered ==
  (call.op = "numericalFeatureSplit" /\ IsZero(call.DI)) =>
    /\ call.sampleIcs_left = <<>>
    /\ call.sampleIcs_right =
         SortedByFeature(call.featureIdx, RealIn(call.featureIdx, call.icsIn))
    /\ SameEntries(call.sampleIcs_right, RealIn(call.featureIdx, call.icsIn))

\* a numeric split without a boundary whose list comes back reordered, a
\* missing entry dropped
C9_Witness ==
  /\ call.op = "numericalFeatureSplit"
  /\ IsZero(call.DI)
  /\ call.leftIn # <<>>
  /\ Len(call.sampleIcs_right) >= 2
  /\ Len(call.sampleIcs_right) < Len(call.icsIn)
  /\ call.sampleIcs_right # RealIn(call.featureIdx, call.icsIn)

\* the target values of a list of samples
TargetsOf(ics) == [i \in 1..Len(ics) |-> ValueOf(call.targetIdx, ics[i])]

\* (n_left * n_right / n_tot) * (mean_left - mean_right)^2 of two groups of
\* target values, as the fraction num / den
RegrNum(L, R) ==
  (SumSeq(L) * Len(R) - SumSeq(R) * Len(L)) * (SumSeq(L) * Len(R) - SumSeq(R) * Len(L))

RegrDen(L, R) == (Len(L) + Len(R)) * Len(L) * Len(R)

\* C10: a numeric split on a numeric target ends on an admissible boundary
\* between distinct feature values of the greatest DI = (n_left * n_right /
\* n_tot) * (mean_left - mean_right)^2, and on none when no admissible boundary
\* has a positive DI; on the documented table it ends between the feature
\* values 4 and 5, four samples on each side, with DI > 0.
C10_NumericTargetBestBoundary ==
  (/\ call.op = "numericalFeatureSplit"
   /\ isFeatureNumerical(call.targetIdx)
   /\ \A idx \in Entries(RealIn(call.featureIdx, call.icsIn)) :
        ~isNAN(ValueOf(call.targetIdx, idx))) =>
    LET S == SortedByFeature(call.featureIdx, RealIn(call.featureIdx, call.icsIn))
        T == TargetsOf(S)
        cuts == {n \in 1..(Len(S) - 1) :
                   /\ n >= call.minSamples
                   /\ Len(S) - n >= call.minSamples
                   /\ ValueOf(call.featureIdx, S[n]) # ValueOf(call.featureIdx, S[n + 1])}
        num(n) == RegrNum(SubSeq(T, 1, n), SubSeq(T, n + 1, Len(T)))
        den(n) == RegrDen(SubSeq(T, 1, n), SubSeq(T, n + 1, Len(T)))
        n_left == Len(call.sampleIcs_left) IN
    /\ IsZero(call.DI) => \A n \in cuts : num(n) = 0
    /\ ~IsZero(call.DI) =>
         /\ n_left \in cuts
         /\ call.DI.k = "num"
         /\ call.DI.n * RegrDen(TargetsOf(call.sampleIcs_left),
                                TargetsOf(call.sampleIcs_right))
              = call.DI.d * RegrNum(TargetsOf(call.sampleIcs_left),
                                    TargetsOf(call.sampleIcs_right))
         /\ \A n \in cuts : num(n) * den(n_left) <= num(n_left) * den(n)
    /\ (/\ getFeatureData(call.targetIdx, range(nSamples)) = <<1, 2, 3, 4, 10, 11, 12, 13>>
        /\ getFeatureData(call.featureIdx, range(nSamples)) = <<1, 2, 3, 4, 5, 6, 7, 8>>
        /\ call.icsIn = range(nSamples)
        /\ call.minSamples = 2) =>
         /\ call.splitValue = 4
         /\ call.sampleIcs_left = <<0, 1, 2, 3>>
         /\ call.sampleIcs_right = <<4, 5, 6, 7>>
         /\ RGreater(call.DI, Zero)

\* the documented split: the whole eight-sample table, minSamples = 2, cut
\* between the feature values 4 and 5
C10_Witness ==
  /\ call.op = "numericalFeatureSplit"
  /\ getFeatureData(call.targetIdx, range(nSamples)) = <<1, 2, 3, 4, 10, 11, 12, 13>>
  /\ getFeatureData(call.featureIdx, range(nSamples)) = <<1, 2, 3, 4, 5, 6, 7, 8>>
  /\ call.icsIn = range(nSamples)
  /\ call.minSamples = 2
  /\ call.splitValue = 4
  /\ Len(call.sampleIcs_left) = 4

\* the sample indices at which a feature's value is present
RealSamples(featureIdx) ==
  {i \in 0..(nSamples - 1) : ~isNAN(ValueOf(featureIdx, i))}

\* the last call is a bootstrap draw that read inside the target's column and
\* returned
IsBootstrap == call.op = "bootstrapFromRealSamples" /\ ~call.exited /\ ~call.pastEnd

\* the greatest k with k <= (n / d) * R
FloorOfFraction(sampleSize, R) ==
  CHOOSE k \in 0..(sampleSize[1] * R) :
    /\ k * sampleSize[2] <= sampleSize[1] * R
    /\ (k + 1) * sampleSize[2] > sampleSize[1] * R

\* C11: after bootstrapFromRealSamples, in either mode and whatever the random
\* source returned, the in-bag list is sorted ascending, the out-of-bag list is
\* sorted ascending without duplicates, every entry of both is a sample at
\* which the target feature is present, the two lists share no index, and
\* together they hold exactly the real samples.
C11_BootstrapPartition ==
  IsBootstrap =>
    /\ \A i \in 1..(Len(call.ics) - 1) : call.ics[i] <= call.ics[i + 1]
    /\ \A i \in 1..(Len(call.oobIcs) - 1) : call.oobIcs[i] < call.oobIcs[i + 1]
    /\ Entries(call.ics) \subseteq RealSamples(call.featureIdx)
    /\ Entries(call.oobIcs) \subseteq RealSamples(call.featureIdx)
    /\ Entries(call.ics) \cap Entries(call.oobIcs) = {}
    /\ Entries(call.ics) \cup Entries(call.oobIcs) = RealSamples(call.featureIdx)

\* a draw with replacement that repeats a sample and leaves another out of
\* the bag, a sample with a missing value in neither list
C11_Witness ==
  /\ IsBootstrap
  /\ call.withReplacement
  /\ HasDuplicates(call.ics)
  /\ Len(call.oobIcs) >= 1
  /\ Cardinality(RealSamples(call.featureIdx)) < nSamples

\* C12: sampling with replacement, for any fraction above 0 (above 1 too) and
\* R real samples of a target that holds a value per sample, the in-bag list holds exactly floor(fraction * R) entries,
\* each a real sample; with R = 0 both lists come back empty and the random
\* source is not asked.
C12_WithReplacementSize ==
  (/\ call.op = "bootstrapFromRealSamples"
   /\ call.withReplacement
   /\ call.sampleSize[1] > 0
   /\ ~call.pastEnd) =>
    LET R == Cardinality(RealSamples(call.featureIdx)) IN
    /\ ~call.exited
    /\ Len(call.ics) = FloorOfFraction(call.sampleSize, R)
    /\ Entries(call.ics) \subseteq RealSamples(call.featureIdx)
    /\ R = 0 => (call.ics = <<>> /\ call.oobIcs = <<>> /\ call.random = <<>>)

\* a draw of one and a half times the three real samples: four entries
C12_Witness ==
  /\ IsBootstrap
  /\ call.withReplacement
  /\ call.sampleSize[1] > call.sampleSize[2]
  /\ Cardinality(RealSamples(call.featureIdx)) = 3
  /\ Len(call.ics) = 4

\* C13: sampling without replacement, the in-bag list is a duplicate-free
\* subset of the real samples of size floor(fraction * R) and the out-of-bag
\* list holds the other R - floor(fraction * R); for the fraction 1 the in-bag
\* list is all the real samples ascending and the out-of-bag list is empty,
\* whatever order the random source produced.
C13_WithoutReplacement ==
  (IsBootstrap /\ ~call.withReplacement) =>
    LET R == Cardinality(RealSamples(call.featureIdx)) IN
    /\ ~HasDuplicates(call.ics)
    /\ Entries(call.ics) \subseteq RealSamples(call.featureIdx)
    /\ Len(call.ics) = FloorOfFraction(call.sampleSize, R)
    /\ Len(call.oobIcs) = R - FloorOfFraction(call.sampleSize, R)
    /\ call.sampleSize[1] = call.sampleSize[2] =>
         /\ call.ics = SelectSeq(range(nSamples),
                                 LAMBDA i : i \in RealSamples(call.featureIdx))
         /\ call.oobIcs = <<>>

\* the whole of three real samples drawn in an order that is not ascending
C13_Witness ==
  /\ IsBootstrap
  /\ ~call.withReplacement
  /\ call.sampleSize[1] = call.sampleSize[2]
  /\ Len(call.ics) = 3
  /\ call.random[1] > call.random[2]

\* C14: a call without replacement for a fraction above 1 ends the process
\* before a sample is drawn and with both output lists as they were handed in;
\* a call with replacement for a fraction above 1 is accepted, and returns
\* when the target feature holds a value for every sample.
C14_FractionCheck ==
  (call.op = "bootstrapFromRealSamples" /\ call.sampleSize[1] > call.sampleSize[2]) =>
    /\ ~call.withReplacement =>
         /\ call.exited
         /\ call.random = <<>>
         /\ call.ics = call.icsIn2
         /\ call.oobIcs = call.oobIcsIn
    /\ call.withReplacement => (~call.exited \/ call.pastEnd)

\* the refused call: without replacement, one and a half times the samples
C14_Witness ==
  /\ call.op = "bootstrapFromRealSamples"
  /\ ~call.withReplacement
  /\ call.sampleSize[1] > call.sampleSize[2]
  /\ call.exited
  /\ call.ics # <<>>

\* the last step built a table
AfterConstruction ==
  call.op \in {"TreedataFromFeatures", "TreedataFromFile"} /\ ~call.exited

\* every contrast is its original under the name with "_CONTRAST" appended:
\* same kind, values, category maps and hash sets
ContrastsEqual ==
  useContrasts_ =>
    /\ Len(features_) % 2 = 0
    /\ \A i \in 1..(Len(features_) \div 2) :
         features_[i + Len(features_) \div 2] =
           [type |-> features_[i].type, name |-> features_[i].name \o "_CONTRAST",
            data |-> features_[i].data, mapping |-> features_[i].mapping,
            backMapping |-> features_[i].backMapping, hashSet |-> features_[i].hashSet]

\* C15 as stated: in a table built with contrasts, every contrast equals its
\* original under the name with "_CONTRAST" appended for as long as
\* permuteContrasts has not been called.
C15_ContrastsUntilPermuted ==
  /\ [](AfterConstruction => ContrastsEqual)
  /\ [][(ContrastsEqual /\ call'.op # "permuteContrasts") => ContrastsEqual']_vars

\* C15 as amended: in a table built with contrasts, every contrast equals its
\* original under the name with "_CONTRAST" appended for as long as neither
\* permuteContrasts nor replaceFeatureData has been called.
C15_ContrastsUntilChanged ==
  /\ [](AfterConstruction => ContrastsEqual)
  /\ [][(ContrastsEqual /\ call'.op \notin {"permuteContrasts", "replaceFeatureData_num",
                                           "replaceFeatureData_str"})
          => ContrastsEqual']_vars

\* a table just read from a file with contrasts: a numeric and a textual
\* feature and the contrast of each
C15_Witness ==
  /\ AfterConstruction
  /\ useContrasts_
  /\ Len(features_) = 4
  /\ features_[4].type = "TXT"
  /\ features_[4].hashSet = features_[2].hashSet
  /\ features_[3].name = "N:a_CONTRAST"
  /\ features_[3].data = features_[1].data

\* the positions of a column that hold the missing value
MissingAt(data) == {i \in 1..Len(data) : isNAN(data[i])}

\* the present values of a column, in place
PresentValues(data) == SelectSeq(data, LAMBDA x : ~isNAN(x))

\* C16: after permuteContrasts, whatever order the random source produced,
\* every contrast feature is missing at the samples it was missing at before
\* and holds the same non-missing values as often as before, and every real
\* feature is as it was.
C16_PermuteFrame ==
  (call.op = "permuteContrasts" /\ ~call.exited) =>
    /\ Len(features_) = Len(call.before)
    /\ \A i \in 1..(Len(features_) \div 2) : features_[i] = call.before[i]
    /\ \A i \in (Len(features_) \div 2 + 1)..Len(features_) :
         /\ Len(features_[i].data) = Len(call.before[i].data)
         /\ MissingAt(features_[i].data) = MissingAt(call.before[i].data)
         /\ SameEntries(PresentValues(features_[i].data),
                        PresentValues(call.before[i].data))
         /\ features_[i] = [call.before[i] EXCEPT !.data = features_[i].data]

\* a shuffle that moved the values of a contrast with a missing entry
C16_Witness ==
  /\ call.op = "permuteContrasts"
  /\ ~call.exited
  /\ \E i \in (Len(features_) \div 2 + 1)..Len(features_) :
       /\ features_[i].data # call.before[i].data
       /\ MissingAt(features_[i].data) # {}

\* C17: nFeatures() is the number n of features handed to the constructor,
\* with contrasts and without; the stored sequence holds 2n features when the
\* table was built with contrasts and n when it was not.
C17_FeatureCount ==
  AfterConstruction =>
    /\ nFeatures = Len(call.newData)
    /\ Len(features_) = IF useContrasts_ THEN 2 * Len(call.newData) ELSE Len(call.newData)

\* a table built with contrasts from two features: four stored, two reported
C17_Witness ==
  /\ AfterConstruction
  /\ useContrasts_
  /\ Len(call.newData) = 2
  /\ Len(features_) = 4
  /\ nFeatures = 2

\* C18: the constructor from features ends in the fatal error, leaving no
\* table, when two features share a name and when two columns differ in length.
C18_ConstructionRefused ==
  (/\ call.op = "TreedataFromFeatures"
   /\ \/ \E i, j \in 1..Len(call.newData) :
           i < j /\ call.newData[i].name = call.newData[j].name
      \/ \E i, j \in 1..Len(call.newData) :
           Len(call.newData[i].data) # Len(call.newData[j].data))
    => (call.exited /\ features_ = <<>>)

\* C19: replaceFeatureData, for numbers or strings and a feature of any kind,
\* ends in the fatal error exactly when the number of new values differs from
\* nSamples(); then the table is as it was, and otherwise the feature at the
\* index holds the new data under its former name.
C19_ReplaceChecksSampleCount ==
  call.op \in {"replaceFeatureData_num", "replaceFeatureData_str"} =>
    /\ call.exited <=> (Len(call.newData) # nSamples)
    /\ call.exited => features_ = call.before
    /\ ~call.exited =>
         /\ features_[call.featureIdx + 1].name = call.before[call.featureIdx + 1].name
         /\ Len(features_[call.featureIdx + 1].data) = Len(call.newData)
         /\ call.op = "replaceFeatureData_num" =>
              features_[call.featureIdx + 1].data = call.newData
         /\ \A i \in 1..Len(features_) :
              i # call.featureIdx + 1 => features_[i] = call.before[i]

\* a table has been built and the process runs
Built == call.op # "unbuilt" /\ features_ # <<>>

\* C20: whatever replaceFeatureData, permuteContrasts, filter, split-search
\* and bootstrap calls follow construction, nFeatures() and nSamples() keep
\* their values, the stored sequence keeps its length, and every numeric or
\* categorical feature holds exactly nSamples() values.
C20_ShapeInvariant ==
  /\ [](Built => \A i \in 1..Len(features_) :
          features_[i].type \in {"NUM", "CAT"} => Len(features_[i].data) = nSamples)
  /\ [][(Built /\ call'.op # "createContrasts")
          => /\ nFeatures' = nFeatures
             /\ nSamples' = nSamples
             /\ Len(features_') = Len(features_)]_vars

\* C21: getFeatureIdx never ends the process: for the name of a stored feature
\* it returns the index of a stored feature of that name, for any other name
\* it returns end(), which is the index of no stored feature, and the name
\* index is as it was before the lookup.
C21_LookupNeverFails ==
  call.op = "getFeatureIdx" =>
    /\ ~call.exited
    /\ (\E i \in 1..Len(features_) : features_[i].name = call.featureName)
         => (/\ call.result \in 0..(Len(features_) - 1)
             /\ getFeatureName(call.result) = call.featureName)
    /\ (\A i \in 1..Len(features_) : features_[i].name # call.featureName)
         => (call.result = end /\ call.result \notin 0..(Len(features_) - 1))
    /\ name2idx_ = call.name2idxBefore
    /\ features_ = call.before

\* a lookup that found a contrast, on a table that has them
C21_Witness ==
  /\ call.op = "getFeatureIdx"
  /\ useContrasts_
  /\ call.featureName = "C:b_CONTRAST"
  /\ call.result = 3

\* a lookup that missed
C21_WitnessMiss ==
  /\ call.op = "getFeatureIdx"
  /\ call.featureName = "N:none"
  /\ call.result = end

\* the string columns of a table's length
StringColumns == [1..nSamples -> {"x", "y", STR_NAN}]

\* the last step read the string of a value the feature holds for the sample
ReadStoredValue ==
  /\ call.op = "getRawFeatureData_at"
  /\ call.sampleIdx < Len(At(call.before, call.featureIdx).data)

\* C22: for a categorical feature built from a string column and any sample,
\* getRawFeatureData(featureIdx, sampleIdx) returns the string the column
\* held for the sample, and two samples of different strings hold different
\* codes.
C22_RawValueRoundTrip ==
  (ReadStoredValue /\ isFeatureCategorical(call.featureIdx)) =>
    \A raw \in StringColumns :
      At(call.before, call.featureIdx)
          = FeatureStr(raw, getFeatureName(call.featureIdx), FALSE)
        => /\ ~call.exited
           /\ call.rawValue = At(raw, call.sampleIdx)
           /\ \A i, j \in 1..Len(raw) :
                raw[i] # raw[j] =>
                  At(call.before, call.featureIdx).data[i]
                    # At(call.before, call.featureIdx).data[j]

\* the string read back through a code that is not the first of the feature,
\* from a column that holds another string twice
C22_Witness ==
  /\ ReadStoredValue
  /\ isFeatureCategorical(call.featureIdx)
  /\ At(call.before, call.featureIdx) = FeatureStr(<<"y", "y", "x">>, "C:b", FALSE)
  /\ call.sampleIdx = 2
  /\ call.data = 1
  /\ call.rawValue = "x"

\* the last step asked for a string, of a given value or of one the feature
\* holds for the sample
IsRawRead == call.op = "getRawFeatureData" \/ ReadStoredValue

\* C23: a getRawFeatureData call leaves the table, the back-maps included, as
\* it was, so that the same call made again returns the same string; the
\* missing value gives "NaN", and a value that is not missing and not in the
\* back-map of a feature that is not numeric ends the process.
C23_RawValueIdempotent ==
  IsRawRead =>
    /\ features_ = call.before
    /\ name2idx_ = call.name2idxBefore
    /\ ~call.exited =>
         getRawFeatureData(call.featureIdx, call.data)
           = [exited |-> FALSE, rawValue |-> call.rawValue, features |-> features_]
    /\ isNAN(call.data) => (~call.exited /\ call.rawValue = STR_NAN)
    /\ (/\ ~isNAN(call.data)
        /\ ~isFeatureNumerical(call.featureIdx)
        /\ call.data \notin DOMAIN At(call.before, call.featureIdx).backMapping)
         => call.exited

\* a code no back-map holds, asked of a categorical feature: the process ends
C23_Witness ==
  /\ call.op = "getRawFeatureData"
  /\ isFeatureCategorical(call.featureIdx)
  /\ call.data = 5
  /\ call.exited
  /\ features_ = call.before

\* the missing value of a categorical feature read as "NaN"
C23_WitnessNaN ==
  /\ ReadStoredValue
  /\ isFeatureCategorical(call.featureIdx)
  /\ isNAN(call.data)
  /\ call.rawValue = STR_NAN

\* C24: the constructor from features ends in a failed assertion, leaving no
\* table, whenever one of the features is textual: a textual feature holds no
\* values, so the columns differ in length or the table has no sample.
C24_BatchRefusesTextual ==
  (/\ call.op = "TreedataFromFeatures"
   /\ \E i \in 1..Len(call.newData) : call.newData[i].type = "TXT")
    => (call.exited /\ features_ = <<>> /\ name2idx_ = <<>> /\ sampleHeaders_ = <<>>)

\* a numeric feature and a textual one handed over: the lengths differ
C24_Witness ==
  /\ call.op = "TreedataFromFeatures"
  /\ Len(call.newData) = 2
  /\ call.newData[1].type = "NUM"
  /\ call.newData[2].type = "TXT"
  /\ Len(call.newData[2].hashSet) = Len(call.newData[1].data)
  /\ call.exited

\* a textual feature alone handed over: the table would have no sample
C24_WitnessAlone ==
  /\ call.op = "TreedataFromFeatures"
  /\ Len(call.newData) = 1
  /\ call.newData[1].type = "TXT"
  /\ call.exited

\* the token set of the sample the last getHash call was made on
TokenSet == At(At(features_, call.featureIdx).hashSet, call.sampleIdx)

\* C25: getHash on a textual feature and a sample whose token set is not
\* empty returns a token of that set; under the iteration order of the set,
\* integers of the same remainder by the set's size give the same token, and
\* the remainders 0 .. size-1 give every token of the set, each once; the
\* feature is as it was before the call.
C25_TokenAt ==
  (/\ call.op = "getHash"
   /\ isFeatureTextual(call.featureIdx)
   /\ TokenSet # {})
    => /\ ~call.exited
       /\ hasHash(call.featureIdx, call.sampleIdx, call.result)
       /\ Len(call.order) = Cardinality(TokenSet)
       /\ \A integer \in 0..(MaxKey + Len(call.order)) :
            integer % Len(call.order) = call.integer % Len(call.order)
              => Feature_getHash(call.order, integer) = call.result
       /\ {Feature_getHash(call.order, r) : r \in 0..(Len(call.order) - 1)} = TokenSet
       /\ \A r1, r2 \in 0..(Len(call.order) - 1) :
            r1 # r2 => Feature_getHash(call.order, r1) # Feature_getHash(call.order, r2)
       /\ features_ = call.before

\* the second token of a set of two, selected by an integer beyond the set's size
C25_Witness ==
  /\ call.op = "getHash"
  /\ isFeatureTextual(call.featureIdx)
  /\ Cardinality(TokenSet) = 2
  /\ call.integer = 3
  /\ call.result = At(call.order, 1)
  /\ call.result # At(call.order, 0)

\* C26: in every table built, with contrasts or without, and after any
\* replaceFeatureData and permuteContrasts calls, getFeatureIdx(getFeatureName(i))
\* is i for every stored feature index i, the contrast indices included.
C26_NameIndexConsistent ==
  Built => \A i \in 0..(Len(features_) - 1) : getFeatureIdx(getFeatureName(i)) = i

\* C27: every index permuteContrasts addresses is the index of a stored
\* feature, on a table built with contrasts and on one built without.
C27_PermuteInsideFeatures ==
  call.op = "permuteContrasts" => \A i \in call.addressed : i < Len(call.before)

\* the calls that read the table to fill their caller's lists
ReadOps ==
  {"numericalFeatureSplit", "categoricalFeatureSplit", "textualFeatureSplit",
   "getFilteredFeatureData", "getFilteredFeatureDataPair", "bootstrapFromRealSamples"}

\* C28: a split search of any of the three kinds, a filter of one feature or
\* of a pair, and a bootstrap draw leave the stored features (values, maps,
\* hash sets, names, kinds), the name index and the sample labels as they
\* were, whatever the call returns and also when it ends the process.
C28_ReadOnly ==
  [][call'.op \in ReadOps =>
       /\ features_' = features_
       /\ name2idx_' = name2idx_
       /\ sampleHeaders_' = sampleHeaders_
       /\ useContrasts_' = useContrasts_]_vars

\* a filter that dropped a sample of a table with contrasts, whose features
\* have all their values still
C28_Witness ==
  /\ call.op = "getFilteredFeatureData"
  /\ useContrasts_
  /\ Len(call.sampleIcs_right) < Len(call.icsIn)
  /\ Len(At(features_, call.featureIdx).data) = Len(call.icsIn)

\* the last categorical split returned without a split: fewer than
\* 2*minSamples samples are real in both features, or the score is below the
\* threshold
ReturnedUnsplit ==
  /\ call.op = "categoricalFeatureSplit"
  /\ \/ Len(RealInBoth(call.targetIdx, call.featureIdx, call.icsIn)) < 2 * call.minSamples
     \/ belowEps(call.DI)

\* C29: when categoricalFeatureSplit returns without a split, the left list is
\* empty, the right list is the input entries real in both features, in input
\* order, and the caller's two category sets are as they were handed in.
C29_UnsplitCategorical ==
  ReturnedUnsplit =>
    /\ call.sampleIcs_left = <<>>
    /\ call.sampleIcs_right = RealInBoth(call.targetIdx, call.featureIdx, call.icsIn)
    /\ call.splitValues_left = call.splitValues_in
    /\ call.splitValues_right = call.splitValues_in

\* a search over enough samples that found no split worth its score, of a
\* list that loses a sample to a missing value, with stale lists handed in
C29_Witness ==
  /\ ReturnedUnsplit
  /\ Len(RealInBoth(call.targetIdx, call.featureIdx, call.icsIn)) >= 2 * call.minSamples
  /\ Len(call.sampleIcs_right) < Len(call.icsIn)
  /\ Len(call.sampleIcs_right) >= 2
  /\ call.leftIn # <<>>
  /\ call.splitValues_in # {}

\* a search refused for too few real samples, with stale lists handed in
C29_WitnessFew ==
  /\ ReturnedUnsplit
  /\ Len(RealInBoth(call.targetIdx, call.featureIdx, call.icsIn)) < 2 * call.minSamples
  /\ Len(call.sampleIcs_right) >= 1
  /\ Len(call.sampleIcs_right) < Len(call.icsIn)
  /\ call.splitValues_in # {}

\* C30: a replaceFeatureData call changes the feature at its index only:
\* every other stored feature, the contrast of the replaced one included, is
\* as it was, every feature keeps its name, and the name index, the sample
\* labels and the number of stored features are as they were.
C30_ReplaceFrame ==
  [][call'.op \in {"replaceFeatureData_num", "replaceFeatureData_str"} =>
       /\ Len(features_') = Len(features_)
       /\ \A i \in 1..Len(features_) :
            /\ i # call'.featureIdx + 1 => features_'[i] = features_[i]
            /\ features_'[i].name = features_[i].name
       /\ name2idx_' = name2idx_
       /\ sampleHeaders_' = sampleHeaders_
       /\ useContrasts_' = useContrasts_]_vars

\* new numbers stored in the first feature of a table with contrasts: the
\* feature differs from before, its contrast holds the former values
C30_Witness ==
  /\ call.op = "replaceFeatureData_num"
  /\ ~call.exited
  /\ useContrasts_
  /\ call.featureIdx = 0
  /\ features_[1] # call.before[1]
  /\ features_[1].name = call.before[1].name
  /\ features_[1 + nFeatures].data = call.before[1].data
  /\ features_[1 + nFeatures].data # features_[1].data

====
